---- MODULE Spec2Model ----
(***************************************************************************)
(* The demand-driven product graph scheduler of pants' engine:             *)
(* LocalScheduler (src/python/pants/engine/scheduler.py) driving the       *)
(* native product graph.  The Python layer is translated from the source;  *)
(* the native engine and the ruleset validator, whose code is not part of  *)
(* the sources at hand, are modelled from the specification.               *)
(***************************************************************************)
EXTENDS Integers, Sequences, FiniteSets, TLC

None == "None"

(***************************************************************************)
(* Bounds of the model.                                                    *)
(***************************************************************************)
\* Number of ExecutionRequest objects the caller creates.
MaxRequests == 2
\* Number of calls of schedule() (generator objects) in one behaviour.
MaxSchedules == 2
\* Saturation of the per-node count of Runnable events.
MaxRunCount == 2
\* Longest chain of demands followed when a demand is traced to the roots.
MaxDemandPath == 4
\* Number of snapshotted processes executed in one behaviour.
MaxProcessRuns == 1
\* Number of links followed, one from within the target of another.
MaxLinkHops == 2
\* Number of _Goal objects created in one behaviour.
MaxGoalObjects == 3
\* Number of components of a filespec handed to create_from_spec alone.
MaxParts == 3

(***************************************************************************)
(* Values, subjects and types.  A value is an atom, or a tuple of atoms    *)
(* (items); a value with a list-valued field carries the list in items.    *)
(***************************************************************************)
Atom(a) == [atom |-> a, items |-> <<>>]

\* The subjects callers ask about, with their Python types.
Subjects == {"x", "y", "sa", "sib", "pg", "u"}

SubjectType(s) ==
  CASE s \in {"x", "y"} -> "Address"
    [] s = "sa" -> "SingleAddress"
    [] s = "sib" -> "SiblingAddresses"
    [] s = "pg" -> "PathGlobs"
    [] OTHER -> "Unsupported"

(***************************************************************************)
(* Selectors (pants.engine.selectors, as used by _register_tasks).         *)
(***************************************************************************)
Select(p) ==
  [tag |-> "Select", product |-> p, dep_product |-> None, field |-> None]

SelectDependencies(p, dp, f) ==
  [tag |-> "SelectDependencies", product |-> p, dep_product |-> dp, field |-> f]

Rule(out, sels, fn) == [output |-> out, selectors |-> sels, func |-> fn]

(***************************************************************************)
(* The rule sets and goals a scheduler is constructed with.                *)
(***************************************************************************)
\* Int <- Select(Str) (len), Str <- Select(Address) (load), and the
\* resolution of a SingleAddress spec into Addresses.
MainRules ==
  << Rule("Int", <<Select("Str")>>, "len"),
     Rule("Str", <<Select("Address")>>, "load"),
     Rule("Addresses", <<Select("SingleAddress")>>, "resolve") >>

\* A <- Select(B), B <- Select(A); P has the cyclic A as first candidate and
\* the subject's Address as second.
CycleRules ==
  << Rule("A", <<Select("B")>>, "fa"),
     Rule("B", <<Select("A")>>, "fb"),
     Rule("P", <<Select("A")>>, "p_of_a"),
     Rule("P", <<Select("Address")>>, "p_of_addr") >>

\* Addresses and K are produced from nothing; Q is consumed but produced by no rule.
GapRules ==
  << Rule("Addresses", <<>>, "no_addresses"),
     Rule("K", <<>>, "const"),
     Rule("G", <<Select("Q")>>, "g_of_q"),
     Rule("H", <<Select("K")>>, "h_of_k") >>

\* Addresses of a SingleAddress (two addresses) and of SiblingAddresses
\* (none); a user rule for Snapshot, which also has an intrinsic; W with
\* three candidates of which the first consumes Q, produced by no rule.
SelectionRules ==
  << Rule("Addresses", <<Select("SingleAddress")>>, "resolve"),
     Rule("Addresses", <<Select("SiblingAddresses")>>, "no_addresses"),
     Rule("Str", <<Select("Address")>>, "load"),
     Rule("Snapshot", <<Select("PathGlobs")>>, "snap_user"),
     Rule("W", <<Select("Q")>>, "w_of_q"),
     Rule("W", <<Select("Address")>>, "w_first"),
     Rule("W", <<Select("Address")>>, "w_second") >>

RuleSets == {MainRules, CycleRules, GapRules}

GoalSets == {{}, {"Int"}, {"H"}, {"G"}, {"A"}}

\* The (subjects, products) a caller makes requests of, per rule set.
RequestShapes(ts) ==
  IF ts = MainRules
    THEN {<< <<"x", "x">>, <<"Int", "Str">> >>,
          << <<"sa">>, <<"Str">> >>,
          << <<"x", "u">>, <<"Int">> >>,
          << <<"x">>, <<"Int", "Q">> >>}
  ELSE IF ts = CycleRules
    THEN {<< <<"x">>, <<"A">> >>, << <<"x">>, <<"P">> >>}
  ELSE IF ts = SelectionRules
    THEN {<< <<"sa", "sib">>, <<"Str", "Q">> >>,
          << <<"x", "pg">>, <<"W", "Snapshot">> >>}
  ELSE {<< <<"sa">>, <<"H">> >>, << <<"x">>, <<"G">> >>,
        << <<"pg">>, <<"Snapshot", "K">> >>}

\* The intrinsics of every scheduler, keyed by (subject type, product type):
\* the default producer of the pair.
Intrinsics == (<<"PathGlobs", "Snapshot">> :> "snapshot")

(***************************************************************************)
(* State.                                                                  *)
(***************************************************************************)
VARIABLES
  tasks,              \* the rules the scheduler was given (ordered)
  goals,              \* the products of the declared goals
  failing,            \* the task functions that raise when executed
  phase,              \* "new" | "ready" | "rejected": the constructor's outcome
  execution_request,  \* self._execution_request: a request id, 0 for None
  requests,           \* the ExecutionRequest objects created so far
  graph,              \* native product graph: node key -> node
  roots,              \* native execution: the root keys admitted
  gens,               \* the schedule() generators, by call order
  lock,               \* self._product_graph_lock (an RLock)
  runCount,           \* history: node key -> number of Runnable events
  construction,       \* history: the steps the constructor took, in order
  pipelining,         \* the native engine given emits forward references
  lastCall,           \* the last API call and how it ended
  process,            \* the executions of snapshotted processes, in order
  project_tree,       \* the stats of the files, directories and links below the build root
  filespec,           \* the filespec being resolved, as its path components
  resolved,           \* <<>>, or the Paths resolved for the filespec
  goal_by_name,       \* Goal._goal_by_name: goal name -> _Goal object (its identity)
  goal_objects,       \* the _Goal objects created so far, by identity
  goal_calls,         \* history: what by_name / register returned since the last clear
  goal_last,          \* history: the last install / uninstall_task call
  stable_task_types   \* the memo of _create_stable_task_type: key -> options_scope

goalVars ==
  << goal_by_name, goal_objects, goal_calls, goal_last, stable_task_types >>

\* The state outside the scheduler, which no call of the scheduler touches.
otherVars == << process, project_tree, filespec, resolved, goalVars >>

vars == << tasks, goals, failing, phase, execution_request, requests, graph,
           roots, gens, lock, runCount, construction, pipelining, lastCall,
           otherVars >>

(***************************************************************************)
(* LocalScheduler.__init__: the root subject types and their selector      *)
(* functions, and the validation of the rule set.                          *)
(***************************************************************************)
root_selector_fns ==
  [t \in {"Address", "PathGlobs", "SingleAddress", "SiblingAddresses",
          "DescendantAddresses"} |->
     IF t \in {"Address", "PathGlobs"} THEN "_select_product"
                                       ELSE "_select_dep_addrs"]

\* The selector a root selector function admits for (subject, product).
RootSelector(fn, product) ==
  IF fn = "_select_product" THEN Select(product)
  ELSE SelectDependencies(product, "Addresses", "dependencies")

\* The subject types handed to the validator (faulty variant: only Address).
ValidatorRootTypesOnlyAddress == {"Address"}

ValidatorRootTypes == DOMAIN root_selector_fns

(***************************************************************************)
(* RulesetValidator: demands are (subject type, product type) pairs.       *)
(***************************************************************************)
\* The subject type of the elements of a field of a product.
FieldType(dep_product, field) == "Address"

\* A demand is met by the subject itself or by some rule for the product.
HasProducer(ts, d) ==
  \/ d[1] = d[2]
  \/ d \in DOMAIN Intrinsics
  \/ \E i \in DOMAIN ts : ts[i].output = d[2]

SelectorDemands(st, sel) ==
  IF sel.tag = "Select" THEN {<<st, sel.product>>}
  ELSE {<<st, sel.dep_product>>,
        <<FieldType(sel.dep_product, sel.field), sel.product>>}

\* The demands made by the selectors of the rules that produce demand d.
RuleDemands(ts, d) ==
  IF d[1] = d[2] THEN {}
  ELSE UNION {UNION {SelectorDemands(d[1], ts[i].selectors[j]) :
                       j \in DOMAIN ts[i].selectors} :
                i \in {n \in DOMAIN ts : ts[n].output = d[2]}}

RootDemands(types, gs) ==
  UNION {SelectorDemands(t, RootSelector(root_selector_fns[t], g)) :
           t \in types, g \in gs}

\* Transitively marks every demand reachable through the selectors of the
\* rules of already marked demands.
RECURSIVE MarkReachable(_, _, _)
MarkReachable(ts, marked, frontier) ==
  IF frontier = {} THEN marked
  ELSE LET new == UNION {RuleDemands(ts, d) : d \in frontier} \ marked
       IN  MarkReachable(ts, marked \cup new, new)

\* RulesetValidator(node_builder, goals, root_subject_types).validate()
validate(ts, gs, types) ==
  LET start == RootDemands(types, gs)
      reach == MarkReachable(ts, start, start)
  IN  IF \E d \in reach : ~HasProducer(ts, d) THEN "error" ELSE "ok"

(***************************************************************************)
(* The task functions, as the caller's pool runs them.                     *)
(***************************************************************************)
\* _store_list(*args): returns its arguments as a tuple (faulty variant: reversed).
store_list_reversed(args) ==
  [atom |-> "tuple",
   items |-> [i \in DOMAIN args |-> args[Len(args) + 1 - i].atom]]

store_list(args) ==
  [atom |-> "tuple", items |-> [i \in DOMAIN args |-> args[i].atom]]

\* The user's task functions: load('x') = "hello", len("hello") = 5, and
\* resolve(spec) lists the addresses y, x in its `dependencies` field.
Apply(func, args) ==
  CASE func = "_store_list" -> store_list(args)
    [] func = "load" -> IF args[1].atom = "x" THEN Atom("hello") ELSE Atom("hi")
    [] func = "len" -> IF args[1].atom = "hello" THEN Atom("5") ELSE Atom("2")
    [] func = "resolve" -> [atom |-> "addresses", items |-> <<"y", "x">>]
    [] OTHER -> Atom(func)

(***************************************************************************)
(* The native product graph.  A node is identified by its subject and      *)
(* selector; variants are not used by the rules at hand.                   *)
(***************************************************************************)
Key(s, sel) == [subject |-> s, selector |-> sel]

NoValue == Atom(None)

WaitingNode ==
  [state |-> "Waiting", value |-> NoValue, reason |-> None, func |-> None,
   args |-> <<>>, cand |-> 1, deps |-> <<>>, cacheable |-> TRUE]

Range(f) == {f[i] : i \in DOMAIN f}

Terminal(n) == n.state \in {"Return", "Throw", "Noop"}

\* Demand(key): the node of the key, created Waiting when absent.
Demand(g, k) ==
  IF k \in DOMAIN g THEN g ELSE g @@ (k :> WaitingNode)

RECURSIVE DemandAll(_, _, _)
DemandAll(g, ks, i) ==
  IF i > Len(ks) THEN g ELSE DemandAll(Demand(g, ks[i]), ks, i + 1)

\* The candidate rules of a product (faulty variant: latest registration
\* first).
CandidatesLatestFirst(ts, p) ==
  LET cs == SelectSeq(ts, LAMBDA r : r.output = p)
  IN  [i \in DOMAIN cs |-> cs[Len(cs) + 1 - i]]

\* The candidate rules of a product, in registration order.
Candidates(ts, p) == SelectSeq(ts, LAMBDA r : r.output = p)

\* The nodes reachable from a set of nodes along dependency edges.
RECURSIVE ReachableFrom(_, _, _)
ReachableFrom(g, seen, frontier) ==
  IF frontier = {} THEN seen
  ELSE LET new == UNION {Range(g[k].deps) : k \in frontier \cap DOMAIN g} \ seen
       IN  ReachableFrom(g, seen \cup new, new)

\* An edge from k to w would close a cycle: w is k or an ancestor of k
\* (faulty variant: no demand is ever found to close a cycle).
WouldCycleNever(g, k, w) == FALSE

WouldCycle(g, k, w) == k \in ReachableFrom(g, {w}, {w})

Settle(g, k, st, val, why) ==
  [g EXCEPT ![k].state = st, ![k].value = val, ![k].reason = why]

\* The node's dependencies ds are in place: Throw propagates, a Noop is
\* reported through onNoop, and with every dependency returned the node is
\* Runnable with the function and the arguments given.
\* Advance of a node over its dependencies (faulty variant: the node becomes
\* Runnable while a dependency is itself only Runnable).
AdvanceOverRunnable(g, k, ds, func, args, onNoop) ==
  IF \E i \in DOMAIN ds : g[ds[i]].state = "Throw"
    THEN Settle(g, k, "Throw", NoValue, "dependency threw")
  ELSE IF \E i \in DOMAIN ds : g[ds[i]].state = "Noop"
    THEN onNoop
  ELSE IF /\ func # None
          /\ \A i \in DOMAIN ds : g[ds[i]].state \in {"Return", "Runnable"}
    THEN [g EXCEPT ![k].state = "Runnable", ![k].func = func, ![k].args = args]
  ELSE g

Advance(g, k, ds, func, args, onNoop) ==
  IF \E i \in DOMAIN ds : g[ds[i]].state = "Throw"
    THEN Settle(g, k, "Throw", NoValue, "dependency threw")
  ELSE IF \E i \in DOMAIN ds : g[ds[i]].state = "Noop"
    THEN onNoop
  ELSE IF \A i \in DOMAIN ds : g[ds[i]].state = "Return"
    THEN [g EXCEPT ![k].state = "Runnable", ![k].func = func, ![k].args = args]
  ELSE IF /\ pipelining
          /\ func # None
          /\ \A i \in DOMAIN ds : g[ds[i]].state \in {"Return", "Runnable"}
    THEN [g EXCEPT ![k].state = "Runnable", ![k].func = func, ![k].args = args]
  ELSE g

\* The keys demanded for a subject by a list of selectors, in order.
RECURSIVE KeysOf(_, _, _)
KeysOf(subject, sels, i) ==
  IF i > Len(sels) THEN <<>>
  ELSE <<Key(subject, sels[i])>> \o KeysOf(subject, sels, i + 1)

\* The keys of one selector demanded for each subject of a list, in order.
RECURSIVE KeysFor(_, _, _)
KeysFor(subjects, sel, i) ==
  IF i > Len(subjects) THEN <<>>
  ELSE <<Key(subjects[i], sel)>> \o KeysFor(subjects, sel, i + 1)

\* A raw argument: the value of a returned node (tag 0), or a forward
\* reference to the runnable of a node that has not returned (tag 1).
Promise == Atom("promise")

RawArg(n) == IF n.state = "Return" THEN n.value ELSE Promise

\* The arguments from the nodes of a list of keys, in the order of the list.
RECURSIVE ValuesOf(_, _, _)
ValuesOf(g, ks, i) ==
  IF i > Len(ks) THEN <<>>
  ELSE <<RawArg(g[ks[i]])>> \o ValuesOf(g, ks, i + 1)

\* The node is produced by the intrinsic of its (subject type, product).
IsIntrinsic(k) ==
  /\ k.selector.tag = "Select"
  /\ <<SubjectType(k.subject), k.selector.product>> \in DOMAIN Intrinsics

\* A node for Select(product) (faulty variant: the dependencies of a failed
\* candidate stay on the node next to those of the later candidate).
StepSelectKeepingDeps(ts, g, k) ==
  LET n  == g[k]
      cs == Candidates(ts, k.selector.product)
  IN  IF SubjectType(k.subject) = k.selector.product
        THEN Settle(g, k, "Return", Atom(k.subject), None)
      ELSE IF IsIntrinsic(k)
        THEN [g EXCEPT ![k].state = "Runnable",
                       ![k].func = Intrinsics[<<SubjectType(k.subject),
                                                k.selector.product>>],
                       ![k].args = <<Atom(k.subject)>>,
                       ![k].cacheable = FALSE]
      ELSE IF n.cand > Len(cs)
        THEN Settle(g, k, "Noop", NoValue, "no rule")
      ELSE
        LET r  == cs[n.cand]
            ds == KeysOf(k.subject, r.selectors, 1)
        IN  IF \E i \in DOMAIN ds : WouldCycle(g, k, ds[i])
              THEN Settle(g, k, "Noop", NoValue, "cycle")
            ELSE
              LET g1 == [DemandAll(g, ds, 1) EXCEPT ![k].deps =
                            (IF n.cand > 1
                               THEN KeysOf(k.subject,
                                           cs[n.cand - 1].selectors, 1)
                               ELSE <<>>) \o ds]
              IN  Advance(g1, k, ds, r.func,
                          ValuesOf(g1, ds, 1),
                          [g1 EXCEPT ![k].cand = n.cand + 1])

\* A node for Select(product) (faulty variant: a Noop dependency of the
\* candidate settles the node, no later candidate is tried).
StepSelectFirstOnly(ts, g, k) ==
  LET n  == g[k]
      cs == Candidates(ts, k.selector.product)
  IN  IF SubjectType(k.subject) = k.selector.product
        THEN Settle(g, k, "Return", Atom(k.subject), None)
      ELSE IF IsIntrinsic(k)
        THEN [g EXCEPT ![k].state = "Runnable",
                       ![k].func = Intrinsics[<<SubjectType(k.subject),
                                                k.selector.product>>],
                       ![k].args = <<Atom(k.subject)>>,
                       ![k].cacheable = FALSE]
      ELSE IF n.cand > Len(cs)
        THEN Settle(g, k, "Noop", NoValue, "no rule")
      ELSE
        LET r  == cs[n.cand]
            ds == KeysOf(k.subject, r.selectors, 1)
        IN  IF \E i \in DOMAIN ds : WouldCycle(g, k, ds[i])
              THEN Settle(g, k, "Noop", NoValue, "cycle")
            ELSE
              LET g1 == [DemandAll(g, ds, 1) EXCEPT ![k].deps = ds]
              IN  Advance(g1, k, ds, r.func,
                          ValuesOf(g1, ds, 1),
                          Settle(g1, k, "Noop", NoValue, "dependency noop"))

\* A node for Select(product): the subject itself when it has the product's
\* type, else the intrinsic of (subject type, product), whose runnable is
\* not cacheable, otherwise the first candidate rule whose selectors are
\* satisfied.
StepSelect(ts, g, k) ==
  LET n  == g[k]
      cs == Candidates(ts, k.selector.product)
  IN  IF SubjectType(k.subject) = k.selector.product
        THEN Settle(g, k, "Return", Atom(k.subject), None)
      ELSE IF IsIntrinsic(k)
        THEN [g EXCEPT ![k].state = "Runnable",
                       ![k].func = Intrinsics[<<SubjectType(k.subject),
                                                k.selector.product>>],
                       ![k].args = <<Atom(k.subject)>>,
                       ![k].cacheable = FALSE]
      ELSE IF n.cand > Len(cs)
        THEN Settle(g, k, "Noop", NoValue, "no rule")
      ELSE
        LET r  == cs[n.cand]
            ds == KeysOf(k.subject, r.selectors, 1)
        IN  IF \E i \in DOMAIN ds : WouldCycle(g, k, ds[i])
              THEN Settle(g, k, "Noop", NoValue, "cycle")
            ELSE
              LET g1 == [DemandAll(g, ds, 1) EXCEPT ![k].deps = ds]
              IN  Advance(g1, k, ds, r.func,
                          ValuesOf(g1, ds, 1),
                          [g1 EXCEPT ![k].cand = n.cand + 1, ![k].deps = <<>>])

\* A node for SelectDependencies (faulty variant: an element whose node is
\* Noop is left out of the list).
StepDependenciesSkipping(ts, g, k) ==
  LET dk == Key(k.subject, Select(k.selector.dep_product))
  IN  IF WouldCycle(g, k, dk)
        THEN Settle(g, k, "Noop", NoValue, "cycle")
      ELSE
        LET g1 == Demand(g, dk)
        IN  IF g1[dk].state # "Return"
              THEN LET g2 == [g1 EXCEPT ![k].deps = <<dk>>]
                   IN  Advance(g2, k, <<dk>>, None, <<>>,
                               Settle(g2, k, "Noop", NoValue, g1[dk].reason))
            ELSE
              LET elems == g1[dk].value.items
                  kids  == SelectSeq(KeysFor(elems, Select(k.selector.product), 1),
                                     LAMBDA e : \/ e \notin DOMAIN g1
                                                \/ g1[e].state # "Noop")
              IN  IF \E i \in DOMAIN kids : WouldCycle(g1, k, kids[i])
                    THEN Settle(g1, k, "Noop", NoValue, "cycle")
                  ELSE
                    LET g2 == [DemandAll(g1, kids, 1) EXCEPT
                                 ![k].deps = <<dk>> \o kids]
                    IN  Advance(g2, k, kids, "_store_list",
                                ValuesOf(g2, kids, 1),
                                Settle(g2, k, "Noop", NoValue, "dependency noop"))

\* A node for SelectDependencies(product, dep_product, field): the node of
\* dep_product, then one child per element of its field, gathered in field
\* order by _store_list.
StepDependencies(ts, g, k) ==
  LET dk == Key(k.subject, Select(k.selector.dep_product))
  IN  IF WouldCycle(g, k, dk)
        THEN Settle(g, k, "Noop", NoValue, "cycle")
      ELSE
        LET g1 == Demand(g, dk)
        IN  IF g1[dk].state # "Return"
              THEN LET g2 == [g1 EXCEPT ![k].deps = <<dk>>]
                   IN  Advance(g2, k, <<dk>>, None, <<>>,
                               Settle(g2, k, "Noop", NoValue, g1[dk].reason))
            ELSE
              LET elems == g1[dk].value.items
                  kids  == KeysFor(elems, Select(k.selector.product), 1)
              IN  IF \E i \in DOMAIN kids : WouldCycle(g1, k, kids[i])
                    THEN Settle(g1, k, "Noop", NoValue, "cycle")
                  ELSE
                    LET g2 == [DemandAll(g1, kids, 1) EXCEPT
                                 ![k].deps = <<dk>> \o kids]
                    IN  Advance(g2, k, kids, "_store_list",
                                ValuesOf(g2, kids, 1),
                                Settle(g2, k, "Noop", NoValue, "dependency noop"))

\* One step of a node: only a Waiting node moves.
Step(ts, g, k) ==
  IF g[k].state # "Waiting" THEN g
  ELSE IF k.selector.tag = "Select" THEN StepSelect(ts, g, k)
  ELSE StepDependencies(ts, g, k)

\* Advance every node until nothing moves.  The graph after a step is bound
\* as a value before the next round looks at it.
RECURSIVE Settled(_, _)
Settled(ts, g) ==
  LET moving == {k \in DOMAIN g : Step(ts, g, k) # g}
  IN  IF moving = {} THEN g
      ELSE CHOOSE r \in {Settled(ts, h) :
                           h \in {Step(ts, g, k) :
                                    k \in {CHOOSE m \in moving : TRUE}}} : TRUE

\* Complete(node, state): a Runnable becomes Return or Throw.
Complete(g, c) ==
  IF c.id \in DOMAIN g /\ g[c.id].state = "Runnable"
    THEN Settle(g, c.id, c.state, c.value, None)
    ELSE g

RECURSIVE CompleteAll(_, _)
CompleteAll(g, cs) ==
  IF cs = {} THEN g
  ELSE CHOOSE r \in {CompleteAll(Complete(g, c), cs \ {c}) :
                       c \in {CHOOSE d \in cs : TRUE}} : TRUE

\* The raw runnable of a node: cacheable is a flag of the native struct.
RawRunnable(g, k) ==
  [id |-> k, func |-> g[k].func, args |-> g[k].args,
   cacheable |-> IF g[k].cacheable THEN 1 ELSE 0]

\* decode_runnable: Runnable(func, args, bool(raw.cacheable)) with its id
\* (faulty variant: every runnable is decoded as cacheable).
decode_runnable_cacheable(raw) == [raw EXCEPT !.cacheable = TRUE]

decode_runnable(raw) == [raw EXCEPT !.cacheable = (raw.cacheable # 0)]

\* The raw runnables of a pass: the nodes that became Runnable in it.
NewlyRunnable(g, g2) ==
  {RawRunnable(g2, k) :
     k \in {k \in DOMAIN g2 :
              /\ g2[k].state = "Runnable"
              /\ ~(k \in DOMAIN g /\ g[k].state = "Runnable")}}

\* decode_arg over the raw runnables: a literal key (tag 0) is decoded, the
\* id of another outstanding runnable (tag 1) raises the pipelining TODO.
decode_error(runnables) ==
  IF \E r \in runnables : \E i \in DOMAIN r.args : r.args[i] = Promise
    THEN "AssertionError" ELSE None

\* execution_next: integrate the completions, walk from the roots, and
\* return the graph with the nodes that newly became Runnable, decoded.
\* _execution_next (faulty variant: an entry that is neither Return nor Throw
\* is passed over and the others are handed to the engine).
execution_next_skipping(ts, g, rts, completed) ==
  CHOOSE res \in
    UNION {{[graph |-> g2, runnables |-> rs, error |-> decode_error(rs)] :
              rs \in {{decode_runnable(raw) : raw \in NewlyRunnable(g, g2)}}} :
            g2 \in {Settled(ts, g1) :
                      g1 \in {DemandAll(
                                CompleteAll(g, {c \in completed :
                                                  c.state \in {"Return", "Throw"}}),
                                rts, 1)}}} :
      TRUE

execution_next(ts, g, rts, completed) ==
  IF \E c \in completed : c.state \notin {"Return", "Throw"}
    THEN [graph |-> g, runnables |-> {}, error |-> "ValueError"]
  ELSE
    CHOOSE res \in
      UNION {{[graph |-> g2, runnables |-> rs, error |-> decode_error(rs)] :
                rs \in {{decode_runnable(raw) : raw \in NewlyRunnable(g, g2)}}} :
              g2 \in {Settled(ts, g1) :
                        g1 \in {DemandAll(CompleteAll(g, completed), rts, 1)}}} :
        TRUE

(***************************************************************************)
(* Initial state: a scheduler about to be constructed.                     *)
(***************************************************************************)
Funcs(ts) == {ts[i].func : i \in DOMAIN ts}

\* The sets of task functions that may raise in one behaviour.
FailingSets == {{}, {"load"}}

NoCall == [op |-> "none", req |-> 0, status |-> "ok"]

\* The fields of a scheduler not yet constructed.
Fresh ==
  /\ phase = "new"
  /\ execution_request = 0
  /\ requests = <<>>
  /\ graph = <<>>
  /\ roots = <<>>
  /\ gens = <<>>
  /\ lock = 0
  /\ runCount = <<>>
  /\ construction = <<>>
  /\ lastCall = NoCall

\* Goal._goal_by_name is empty, no goal was created, no task type made.
NoGoals ==
  /\ goal_by_name = <<>>
  /\ goal_objects = <<>>
  /\ goal_calls = {}
  /\ goal_last = [op |-> "none", goal |-> 0, task |-> None, status |-> "ok",
                  place |-> [first |-> FALSE, replace |-> FALSE,
                             before |-> None, after |-> None],
                  otn |-> <<>>]
  /\ stable_task_types = <<>>

\* Nothing outside the scheduler has happened.
Idle ==
  /\ process = <<>>
  /\ project_tree = {}
  /\ filespec = <<>>
  /\ resolved = <<>>
  /\ NoGoals

Init ==
  /\ tasks \in RuleSets
  /\ goals \in GoalSets
  /\ failing \in {F \in FailingSets : F \subseteq Funcs(tasks)}
  /\ pipelining = FALSE
  /\ Fresh
  /\ Idle

\* The outcome of the constructor for the validator's verdict: a validation
\* error is raised out of __init__ and leaves no scheduler (faulty variant:
\* the verdict is ignored).
ConstructedPhaseIgnoringVerdict(verdict) == "ready"

ConstructedPhase(verdict) == IF verdict = "ok" THEN "ready" ELSE "rejected"

\* The steps of the constructor from the validation on, in program order:
\* the rules are handed to the native scheduler after validate() returned.
ConstructionSteps(verdict) ==
  IF verdict = "ok"
    THEN <<"validate", "register_tasks", "register_intrinsics">>
    ELSE <<"validate">>

\* LocalScheduler.__init__: validate, then register the tasks.  A validation
\* error leaves no scheduler.
Construct ==
  /\ phase = "new"
  /\ \E verdict \in {validate(tasks, goals, ValidatorRootTypes)} :
       /\ phase' = ConstructedPhase(verdict)
       /\ construction' = construction \o ConstructionSteps(verdict)
  /\ lastCall' = NoCall
  /\ UNCHANGED << otherVars, pipelining, tasks, goals, failing,
                  execution_request,
                  requests, graph, roots, gens, lock, runCount >>

(***************************************************************************)
(* ExecutionRequest objects.  roots is a generator expression over the     *)
(* subjects and products: pos counts the roots already drawn from it.      *)
(***************************************************************************)
ExecutionRequest(products, subjects) ==
  [subjects |-> subjects, products |-> products, pos |-> 0]

\* (s, p) for s in subjects for p in products (faulty variant: the subjects
\* and the products are paired position by position).
RootPairsZipped(req) ==
  [n \in 1..(IF Len(req.subjects) < Len(req.products)
               THEN Len(req.subjects) ELSE Len(req.products)) |->
     << req.subjects[n], req.products[n] >>]

RootPairs(req) ==
  [n \in 1..(Len(req.subjects) * Len(req.products)) |->
     << req.subjects[((n - 1) \div Len(req.products)) + 1],
        req.products[((n - 1) % Len(req.products)) + 1] >>]

\* LocalScheduler.execution_request(products, subjects)
CreateRequest ==
  /\ phase = "ready"
  /\ Len(requests) < MaxRequests
  /\ Len(requests) <= Len(gens)
  /\ \E shape \in RequestShapes(tasks) :
       requests' = Append(requests, ExecutionRequest(shape[2], shape[1]))
  /\ lastCall' = NoCall
  /\ UNCHANGED << otherVars, construction, pipelining, tasks, goals, failing, phase,
                  execution_request, graph,
                  roots, gens, lock, runCount >>

(***************************************************************************)
(* The graph lock, an RLock: the calls modelled are those of the one       *)
(* scheduling thread, for which it is re-entrant; lock counts its holds.   *)
(***************************************************************************)
Acquired(lk) == lk + 1

Released(lk) == lk - 1

(***************************************************************************)
(* LocalScheduler._execution_add_roots                                     *)
(***************************************************************************)
\* native execution_reset: the roots of the execution are dropped, the
\* graph is retained (faulty variant: the graph is dropped as well).
execution_reset_dropping_graph(g, rts) == [graph |-> <<>>, roots |-> <<>>]

execution_reset(g, rts) == [graph |-> g, roots |-> <<>>]

\* The loop over execution_request.roots, from the generator's position.
RECURSIVE AddRoots(_, _, _)
AddRoots(rts, pairs, pos) ==
  IF pos >= Len(pairs) THEN [roots |-> rts, pos |-> pos, error |-> None]
  ELSE LET subject == pairs[pos + 1][1]
           product == pairs[pos + 1][2]
           typ     == SubjectType(subject)
       IN  IF typ \notin DOMAIN root_selector_fns
             THEN [roots |-> rts, pos |-> pos + 1, error |-> "TypeError"]
           ELSE AddRoots(
                  Append(rts, Key(subject,
                                  RootSelector(root_selector_fns[typ], product))),
                  pairs, pos + 1)

\* _execution_add_roots (faulty variant: the nodes of the graph are set back
\* to Waiting when the execution is reset).
execution_add_roots_restarting(er, g, rts, req) ==
  LET added == AddRoots(<<>>, RootPairs(req), req.pos)
  IN  [graph |-> [k \in DOMAIN g |-> WaitingNode], roots |-> added.roots,
       pos |-> added.pos, error |-> added.error]

execution_add_roots(er, g, rts, req) ==
  LET reset == IF er # 0 THEN execution_reset(g, rts)
               ELSE [graph |-> g, roots |-> rts]
      added == AddRoots(reset.roots, RootPairs(req), req.pos)
  IN  [graph |-> reset.graph, roots |-> added.roots, pos |-> added.pos,
       error |-> added.error]

(***************************************************************************)
(* LocalScheduler.schedule: the generator's loop.                          *)
(***************************************************************************)
Ids(rs) == {r.id : r \in rs}

\* outstanding_runnable after one call of _execution_next (faulty variant: the
\* completed ids are not taken out).
OutstandingKeepingCompleted(outstanding, completed, runnable) ==
  outstanding \cup Ids(runnable)

OutstandingUpdate(outstanding, completed, runnable) ==
  (outstanding \ Ids(completed)) \cup Ids(runnable)

\* "completed = yield runnable": the batch handed to the caller; held are
\* the runnables handed out earlier and still outstanding (faulty variant: the
\* outstanding runnables are yielded again).
YieldedWithOutstanding(runnable, held) == runnable \cup held

Yielded(runnable, held) == runnable

\* "if not runnable and not outstanding_runnable: break"
Finished(runnable, outstanding) == runnable = {} /\ outstanding = {}

\* What the pool returns for a runnable: the function's value, or a Throw
\* when the function raises.
Execute(r) ==
  IF r.func \in failing
    THEN [id |-> r.id, state |-> "Throw", value |-> NoValue]
    ELSE [id |-> r.id, state |-> "Return", value |-> Apply(r.func, r.args)]

Bump(rc, ks) ==
  [k \in DOMAIN rc \cup ks |->
     IF k \in ks
       THEN IF k \in DOMAIN rc
              THEN (IF rc[k] < MaxRunCount THEN rc[k] + 1 ELSE rc[k])
              ELSE 1
       ELSE rc[k]]

\* One pass of the loop body from "runnable = self._execution_next(completed)"
\* to the yield of the batch or the break, for generator i.
LoopPass(i, gn, g, rts, lk) ==
  \E res \in {execution_next(tasks, g, rts, gn.completed)} :
    \E outstanding \in {OutstandingUpdate(gn.outstanding, gn.completed,
                                          res.runnables)} :
      LET finished == Finished(res.runnables, outstanding)
          batch    == IF finished THEN {}
                      ELSE Yielded(res.runnables,
                                   {h \in gn.handed : h.id \in outstanding})
      IN  IF res.error # None
            THEN \* _execution_next raised: the generator ends, the with
                 \* block is left, the native graph keeps the pass.
                 /\ graph' = res.graph
                 /\ runCount' = runCount
                 /\ gens' = [j \in DOMAIN gens \cup {i} |->
                               IF j = i THEN [gn EXCEPT !.pc = "raised",
                                                        !.completed = {}]
                               ELSE gens[j]]
                 /\ lock' = Released(lk)
            ELSE
              /\ graph' = res.graph
              /\ runCount' = Bump(runCount, Ids(batch))
              /\ gens' = [j \in DOMAIN gens \cup {i} |->
                            IF j = i
                              THEN [gn EXCEPT !.pc = IF finished THEN "done"
                                                     ELSE "yielded",
                                              !.completed = {},
                                              !.outstanding = outstanding,
                                              !.handed = gn.handed \cup batch,
                                              !.batches = IF finished
                                                            THEN gn.batches
                                                            ELSE 1]
                              ELSE gens[j]]
              /\ lock' = IF finished THEN Released(lk) ELSE lk

NewGen(r) ==
  [req |-> r, pc |-> "new", completed |-> {}, outstanding |-> {},
   handed |-> {}, batches |-> 0]

\* schedule(execution_request) up to its first yield: take the lock, reset
\* the execution and admit the roots, then run the loop.
ScheduleStart ==
  /\ phase = "ready"
  /\ Len(gens) < MaxSchedules
  /\ \E r \in DOMAIN requests :
       /\ LET add == execution_add_roots(execution_request, graph, roots,
                                         requests[r])
              i   == Len(gens) + 1
          IN  /\ execution_request' = r
              /\ requests' = [requests EXCEPT ![r].pos = add.pos]
              /\ roots' = add.roots
              /\ lastCall' = NoCall
              /\ IF add.error # None
                   THEN /\ gens' = Append(gens, [NewGen(r) EXCEPT !.pc = "raised"])
                        /\ graph' = add.graph
                        /\ UNCHANGED << lock, runCount >>
                   ELSE LoopPass(i, NewGen(r), add.graph, add.roots,
                                 Acquired(lock))
  /\ UNCHANGED << otherVars, construction, pipelining, tasks, goals, failing, phase >>

\* The caller runs some of the runnables it holds and sends their states:
\* "completed = yield runnable", up to the bare yield that follows.
SendCompletedOf(i, done) ==
  /\ i \in DOMAIN gens
  /\ gens[i].pc = "yielded"
  /\ done \subseteq gens[i].handed
  /\ gens' = [gens EXCEPT ![i].pc = "yielded2",
                          ![i].completed = {Execute(r) : r \in done},
                          ![i].handed = gens[i].handed \ done]
  /\ lastCall' = NoCall
  /\ UNCHANGED << otherVars, construction, pipelining, tasks, goals, failing, phase,
                  execution_request, requests,
                  graph, roots, lock, runCount >>

SendCompleted ==
  \E i \in DOMAIN gens : \E done \in SUBSET gens[i].handed :
    SendCompletedOf(i, done)

\* The caller submits completions of which one, for the runnable bad, holds
\* a state that is neither Return nor Throw.
SendBadCompletedOf(i, done, bad) ==
  /\ i \in DOMAIN gens
  /\ gens[i].pc = "yielded"
  /\ done \subseteq gens[i].handed
  /\ bad \in gens[i].handed \ done
  /\ gens' = [gens EXCEPT ![i].pc = "yielded2",
                          ![i].completed =
                             {Execute(r) : r \in done}
                             \cup {[id |-> bad.id, state |-> "Noop",
                                    value |-> NoValue]},
                          ![i].handed = gens[i].handed \ (done \cup {bad})]
  /\ lastCall' = NoCall
  /\ UNCHANGED << otherVars, construction, pipelining, tasks, goals, failing, phase,
                  execution_request, requests,
                  graph, roots, lock, runCount >>

SendBadCompleted ==
  \E i \in DOMAIN gens : \E done \in SUBSET gens[i].handed :
    \E bad \in gens[i].handed \ done : SendBadCompletedOf(i, done, bad)

\* The caller resumes the generator from the bare yield: the next pass of
\* the loop.
ResumeOf(i) ==
  /\ i \in DOMAIN gens
  /\ gens[i].pc = "yielded2"
  /\ LoopPass(i, gens[i], graph, roots, lock)
  /\ lastCall' = NoCall
  /\ UNCHANGED << otherVars, construction, pipelining, tasks, goals, failing, phase,
                  execution_request, requests,
                  roots >>

Resume == \E i \in DOMAIN gens : ResumeOf(i)

(***************************************************************************)
(* LocalScheduler.root_entries                                             *)
(***************************************************************************)
\* The state reported for a root by its union_tag.  Noop is not a name of
\* the module: building the state for union_tag 3 raises NameError.
RootState(g, k) ==
  IF k \notin DOMAIN g \/ g[k].state \in {"Waiting", "Runnable"}
    THEN [state |-> "None", value |-> NoValue]
  ELSE IF g[k].state = "Return" THEN [state |-> "Return", value |-> g[k].value]
  ELSE IF g[k].state = "Throw" THEN [state |-> "Throw", value |-> Atom("Failed")]
  ELSE [state |-> "NameError", value |-> NoValue]

root_entries(er, g, rts, r) ==
  IF er # r THEN [status |-> "ValueError", result |-> <<>>]
  ELSE IF \E i \in DOMAIN rts : RootState(g, rts[i]).state = "NameError"
    THEN [status |-> "NameError", result |-> <<>>]
  ELSE [status |-> "ok",
        result |-> [sp \in {<<rts[i].subject, rts[i].selector.product>> :
                              i \in DOMAIN rts} |->
                      RootState(g, rts[CHOOSE i \in DOMAIN rts :
                                  /\ sp = <<rts[i].subject, rts[i].selector.product>>
                                  /\ \A j \in DOMAIN rts :
                                       sp = <<rts[j].subject, rts[j].selector.product>>
                                       => j <= i])]]

RootEntries ==
  /\ phase = "ready"
  /\ lastCall = NoCall
  /\ \E r \in DOMAIN requests :
       LET out == root_entries(execution_request, graph, roots, r)
       IN  lastCall' = [op |-> "root_entries", req |-> r, status |-> out.status]
  /\ UNCHANGED << otherVars, construction, pipelining, tasks, goals, failing, phase,
                  execution_request, requests,
                  graph, roots, gens, lock, runCount >>

(***************************************************************************)
(* LocalScheduler.invalidate_files                                         *)
(***************************************************************************)
\* The filename sets a caller invalidates.
InvalidatedFiles == {{"x"}}

\* generate_fs_subjects: the subjects derived from the given filenames.
generate_fs_subjects(filenames) == filenames

\* Under the lock the subjects are computed and the TODO is raised: the
\* format call is misspelt (.formast), so what is raised is the
\* AttributeError of that attribute lookup.  The graph is not touched.
invalidate_files(g, filenames) == [status |-> "AttributeError", graph |-> g]

InvalidateFiles ==
  /\ phase = "ready"
  /\ lastCall = NoCall
  /\ \E fs \in InvalidatedFiles :
       LET out == invalidate_files(graph, fs)
       IN  /\ graph' = out.graph
           /\ lastCall' = [op |-> "invalidate_files", req |-> 0,
                             status |-> out.status]
  /\ UNCHANGED << otherVars, construction, pipelining, tasks, goals, failing, phase,
                  execution_request, requests,
                  roots, gens, lock, runCount >>

Next ==
  \/ Construct
  \/ CreateRequest
  \/ ScheduleStart
  \/ SendCompleted
  \/ Resume
  \/ RootEntries
  \/ InvalidateFiles

Spec == Init /\ [][Next]_vars

\* The calls that drive scheduling, under a caller that keeps resuming each
\* generator and eventually submits a state for every runnable it holds.
SubmitAll(i) ==
  /\ i \in DOMAIN gens
  /\ gens[i].handed # {}
  /\ SendCompletedOf(i, gens[i].handed)

NextScheduling ==
  \/ Construct
  \/ CreateRequest
  \/ ScheduleStart
  \/ SendCompleted
  \/ Resume

\* Generator i is suspended at the bare yield, where only the caller's next
\* resumption moves it: the enabling condition of ResumeOf(i).
AtBareYield(i) == i \in DOMAIN gens /\ gens[i].pc = "yielded2"

\* Weak fairness of ResumeOf(i), stated through its enabling condition:
\* ResumeOf(i) is enabled exactly at the bare yield and every step of it
\* leaves the bare yield, so WF_vars(ResumeOf(i)) is the statement that the
\* generator is not left at the bare yield for ever.
ResumeFairness(i) == []<>~AtBareYield(i)

FairSpec ==
  /\ Init
  /\ [][NextScheduling]_vars
  /\ \A i \in 1..MaxSchedules : SF_vars(SubmitAll(i)) /\ ResumeFairness(i)

(***************************************************************************)
(* Construction alone, over every selection of rules from a pool: the      *)
(* inputs of the validator.                                                *)
(***************************************************************************)
ValidatorRulePool ==
  << Rule("Int", <<Select("Str")>>, "len"),
     Rule("Str", <<Select("Address")>>, "load"),
     Rule("Addresses", <<Select("SingleAddress")>>, "resolve"),
     Rule("Addresses", <<>>, "no_addresses"),
     Rule("K", <<>>, "const"),
     Rule("H", <<Select("K")>>, "h_of_k"),
     Rule("A", <<Select("B")>>, "fa"),
     Rule("B", <<Select("A")>>, "fb") >>

\* The rules of the pool at the positions S, in the order of the pool.
RECURSIVE Picked(_, _, _)
Picked(pool, S, i) ==
  IF i > Len(pool) THEN <<>>
  ELSE (IF i \in S THEN <<pool[i]>> ELSE <<>>) \o Picked(pool, S, i + 1)

ValidatorRuleSets ==
  {Picked(ValidatorRulePool, S, 1) : S \in SUBSET DOMAIN ValidatorRulePool}

ValidatorGoalSets == {{}, {"Int"}, {"H"}, {"K"}, {"A"}, {"K", "Addresses"}}

ValidatorInit ==
  /\ tasks \in ValidatorRuleSets
  /\ goals \in ValidatorGoalSets
  /\ failing = {}
  /\ pipelining = FALSE
  /\ Fresh
  /\ Idle

ValidatorSpec == ValidatorInit /\ [][Construct]_vars

(***************************************************************************)
(* Scheduling over a native engine that pipelines: a node whose            *)
(* dependencies are returned or runnable is runnable itself.               *)
(***************************************************************************)
PipelineInit ==
  /\ tasks \in RuleSets
  /\ goals \in GoalSets
  /\ failing \in {F \in FailingSets : F \subseteq Funcs(tasks)}
  /\ pipelining = TRUE
  /\ Fresh
  /\ Idle

PipelineSpec == PipelineInit /\ [][NextScheduling]_vars

(***************************************************************************)
(* Scheduling over rules with several candidates per product, an intrinsic *)
(* next to a user rule, and dependency lists that are empty or hold        *)
(* elements no rule serves.                                                *)
(***************************************************************************)
SelectionInit ==
  /\ tasks = SelectionRules
  /\ goals = {}
  /\ failing = {}
  /\ pipelining = FALSE
  /\ Fresh
  /\ Idle

SelectionSpec == SelectionInit /\ [][NextScheduling]_vars

(***************************************************************************)
(* Scheduling with a caller whose submissions may hold an entry that is    *)
(* neither Return nor Throw.                                               *)
(***************************************************************************)
CompletionInit ==
  /\ tasks = GapRules
  /\ goals = {}
  /\ failing = {}
  /\ pipelining = FALSE
  /\ Fresh
  /\ Idle

CompletionNext ==
  \/ Construct
  \/ CreateRequest
  \/ ScheduleStart
  \/ SendCompleted
  \/ SendBadCompleted
  \/ Resume

CompletionSpec == CompletionInit /\ [][CompletionNext]_vars

(***************************************************************************)
(* Properties.                                                             *)
(***************************************************************************)
RunsOf(rc, k) == IF k \in DOMAIN rc THEN rc[k] ELSE 0

\* C1: under a caller that eventually submits a state for every runnable it
\* was handed, a schedule loop that has yielded a batch eventually reaches a
\* pass with no new runnable and nothing outstanding, and stops there.
C1_ScheduleTerminates ==
  \A i \in 1..MaxSchedules :
    (i \in DOMAIN gens /\ gens[i].pc = "yielded")
      ~> (i \in DOMAIN gens /\ gens[i].pc = "done" /\ gens[i].outstanding = {})

C1_Witness ==
  \E i \in DOMAIN gens : gens[i].pc = "done" /\ gens[i].batches = 1

\* C2: when the schedule loop of the latest request has terminated, every
\* admitted root is in a terminal state (none is absent, Waiting or Runnable).
C2_RootsTerminalAtTermination ==
  \A i \in DOMAIN gens :
    (i = Len(gens) /\ gens[i].pc = "done")
      => \A j \in DOMAIN roots :
           roots[j] \in DOMAIN graph /\ Terminal(graph[roots[j]])

\* C3: while the schedule loop of one request has started and not finished,
\* a call of schedule with a second request raises an error.
C3_SecondScheduleRaises ==
  \A i, j \in DOMAIN gens :
    (i < j /\ gens[i].pc \in {"yielded", "yielded2"}
       /\ gens[i].req # gens[j].req)
      => gens[j].pc = "raised"

\* The state root_entries is specified to report for a root.
ExpectedRootState(g, k) ==
  IF k \notin DOMAIN g \/ g[k].state \in {"Waiting", "Runnable"} THEN "None"
  ELSE g[k].state

\* C4: root_entries on the active request returns (and does not fail) a map
\* with, for every root, None / Return / Throw / Noop as the node's state is.
C4_RootEntriesReportsEveryState ==
  (lastCall.op = "root_entries" /\ lastCall.req = execution_request)
    => /\ lastCall.status = "ok"
       /\ \A j \in DOMAIN roots :
            RootState(graph, roots[j]).state = ExpectedRootState(graph, roots[j])

\* C5: invalidate_files completes without raising, and afterwards the graph
\* holds no node whose subject matches the files nor an ancestor of one.
C5_InvalidateFilesRemoves ==
  lastCall.op = "invalidate_files"
    => /\ lastCall.status = "ok"
       /\ \E fs \in InvalidatedFiles :
            \A k \in DOMAIN graph :
              ReachableFrom(graph, {k}, {k})
                \cap {n \in DOMAIN graph : n.subject \in generate_fs_subjects(fs)}
                = {}

\* C6: every node that was made Runnable has been yielded in a batch exactly
\* once, however many roots and parents demand its key.
C6_Memoization ==
  /\ \A k \in DOMAIN runCount : runCount[k] = 1
  /\ \A k \in DOMAIN graph : graph[k].func # None => RunsOf(runCount, k) = 1

C6_Witness ==
  \E k \in DOMAIN graph :
    /\ Cardinality({j \in DOMAIN roots : roots[j] = k}) >= 2
    /\ \E n \in DOMAIN graph : k \in Range(graph[n].deps)
    /\ graph[k].state = "Return"
    /\ RunsOf(runCount, k) = 1

\* C7: a node that reached Return or Throw stays in the graph as it is and
\* is not yielded again, also across the start of a later request.
C7_GraphRetained ==
  [][\A k \in DOMAIN graph :
       graph[k].state \in {"Return", "Throw"}
         => /\ k \in DOMAIN graph'
            /\ graph'[k] = graph[k]
            /\ RunsOf(runCount', k) = RunsOf(runCount, k)]_vars

C7_Witness ==
  /\ Len(gens) = 2
  /\ gens[1].pc = "done" /\ gens[1].batches = 1
  /\ gens[2].pc = "done" /\ gens[2].batches = 0
  /\ gens[1].req # gens[2].req
  /\ roots # <<>>
  /\ \A j \in DOMAIN roots :
       /\ roots[j] \in DOMAIN graph
       /\ graph[roots[j]].state = "Return"
       /\ RunsOf(runCount, roots[j]) = 1

\* C8: the list a SelectDependencies node returns has one element per
\* element of the field, in field order: the value of that element's node.
C8_DependenciesInFieldOrder ==
  \A k \in DOMAIN graph :
    (k.selector.tag = "SelectDependencies" /\ graph[k].state = "Return")
      => LET field == graph[Key(k.subject, Select(k.selector.dep_product))]
                        .value.items
             items == graph[k].value.items
         IN  /\ Len(items) = Len(field)
             /\ \A i \in DOMAIN field :
                  items[i] =
                    graph[Key(field[i], Select(k.selector.product))].value.atom

C8_Witness ==
  \E k \in DOMAIN graph :
    /\ k.selector.tag = "SelectDependencies"
    /\ graph[k].state = "Return"
    /\ Len(graph[k].value.items) = 2
    /\ graph[k].value.items[1] # graph[k].value.items[2]

\* C9: with A <- Select(B), B <- Select(A) and the request (x, A), once
\* scheduling has terminated root_entries reports the root as Noop("cycle").
C9_CycleRootReportedNoopCycle ==
  (/\ tasks = CycleRules
   /\ lastCall.op = "root_entries" /\ lastCall.req = execution_request
   /\ gens[Len(gens)].pc = "done"
   /\ roots = <<Key("x", Select("A"))>>)
    => /\ lastCall.status = "ok"
       /\ graph[roots[1]].state = "Noop"
       /\ graph[roots[1]].reason = "cycle"

\* The demands of the closed universe of subject and product types.
AllDemands ==
  (DOMAIN root_selector_fns) \X
    {"Address", "SingleAddress", "Addresses", "Int", "Str", "A", "B", "P",
     "K", "G", "H", "Q"}

\* Demand d is reached from a root demand by a chain of at most n steps,
\* each from a demand to a demand of a selector of one of its rules.
RECURSIVE DemandPath(_, _, _, _)
DemandPath(ts, gs, d, n) ==
  \/ d \in RootDemands(DOMAIN root_selector_fns, gs)
  \/ /\ n > 0
     /\ \E e \in AllDemands :
          d \in RuleDemands(ts, e) /\ DemandPath(ts, gs, e, n - 1)

\* C10: the rule set is rejected iff some demand reachable from the declared
\* root subject types through selectors of reachable rules has no producer.
C10_ValidatorSoundness ==
  phase # "new"
    => (phase = "rejected"
          <=> \E d \in AllDemands :
                DemandPath(tasks, goals, d, MaxDemandPath) /\ ~HasProducer(tasks, d))

C10_Witness ==
  /\ phase = "rejected"
  /\ \A d \in RootDemands(DOMAIN root_selector_fns, goals) : HasProducer(tasks, d)

\* The positions of a step in the constructor's history.
StepsAt(step) == {i \in DOMAIN construction : construction[i] = step}

\* C11 (as stated): validation runs once, after the rules were registered and
\* before any root is admitted, and after a validation error no root is
\* admitted and no batch is yielded.
C11_ValidatedAfterRegistration ==
  /\ \A i \in StepsAt("validate") :
       /\ \E j \in StepsAt("register_tasks") : j < i
       /\ \E j \in StepsAt("register_intrinsics") : j < i
  /\ phase = "new" => roots = <<>>
  /\ (phase # "new" /\ validate(tasks, goals, ValidatorRootTypes) = "error")
       => roots = <<>> /\ gens = <<>>

\* C11 (amended): validation runs once, as the first step, before the rules
\* are handed to the native scheduler and before any root is admitted; after
\* a validation error nothing is registered, no request is created, no root
\* is admitted and no batch is yielded.
C11_ValidatedOnceBeforeRegistrationAndRoots ==
  /\ phase = "new"
       => construction = <<>> /\ requests = <<>> /\ roots = <<>> /\ gens = <<>>
  /\ phase # "new"
       => /\ StepsAt("validate") = {1}
          /\ \A j \in StepsAt("register_tasks") \cup StepsAt("register_intrinsics") :
               j > 1
  /\ (phase # "new" /\ validate(tasks, goals, ValidatorRootTypes) = "ok")
       => construction = <<"validate", "register_tasks", "register_intrinsics">>
  /\ (phase # "new" /\ validate(tasks, goals, ValidatorRootTypes) = "error")
       => /\ construction = <<"validate">>
          /\ requests = <<>> /\ roots = <<>> /\ gens = <<>> /\ graph = <<>>

C11_Witness ==
  /\ phase = "rejected"
  /\ construction = <<"validate">>
  /\ validate(tasks, goals, ValidatorRootTypes) = "error"

\* Node d is among the dependencies of node k, directly or transitively.
DependsOn(g, k, d) == d \in ReachableFrom(g, {k}, {k}) \ {k}

\* C12 (propagation): a node with a thrown transitive dependency is Throw.
ThrowReachesEveryParent ==
  \A k \in DOMAIN graph : \A d \in DOMAIN graph :
    (DependsOn(graph, k, d) /\ graph[d].state = "Throw")
      => graph[k].state = "Throw"

\* C12: Throw propagates to every node that transitively depends on the
\* thrown one, and root_entries on the active request reports a root with a
\* thrown transitive dependency as Throw.
C12_ThrowPropagatesToRootEntries ==
  /\ ThrowReachesEveryParent
  /\ (lastCall.op = "root_entries" /\ lastCall.req = execution_request)
       => \A j \in DOMAIN roots :
            (\E d \in DOMAIN graph :
               DependsOn(graph, roots[j], d) /\ graph[d].state = "Throw")
              => /\ lastCall.status = "ok"
                 /\ RootState(graph, roots[j]).state = "Throw"

\* The runnable of node k carries a forward reference among its arguments.
Pipelined(g, k) ==
  /\ g[k].state = "Runnable"
  /\ \E i \in DOMAIN g[k].args : g[k].args[i] = Promise

\* C13: a runnable whose arguments hold a forward reference to another
\* runnable is delivered to the caller in a yielded batch, reference intact.
C13_PipelinedBatchDelivered ==
  \A k \in DOMAIN graph :
    Pipelined(graph, k)
      => /\ RunsOf(runCount, k) = 1
         /\ \E i \in DOMAIN gens :
              decode_runnable(RawRunnable(graph, k)) \in gens[i].handed

\* C14: every runnable yielded for a node produced by an intrinsic carries
\* cacheable = false, in every batch of every request.
C14_IntrinsicRunnablesNotCacheable ==
  \A i \in DOMAIN gens : \A r \in gens[i].handed :
    IsIntrinsic(r.id) => r.cacheable = FALSE

\* A batch holds the runnable of an intrinsic, not cacheable, next to the
\* cacheable runnable of a task.
C14_Witness ==
  \E i \in DOMAIN gens : \E r, t \in gens[i].handed :
    /\ gens[i].pc = "yielded"
    /\ IsIntrinsic(r.id) /\ r.cacheable = FALSE
    /\ ~IsIntrinsic(t.id) /\ t.cacheable = TRUE

\* The roots a request still yields: its generator from its position on.
RemainingRoots(req) ==
  LET pairs == RootPairs(req)
  IN  [n \in 1..(Len(pairs) - req.pos) |-> pairs[req.pos + n]]

\* The number of positions of a sequence that hold a value.
Occurrences(seq, v) == Cardinality({i \in DOMAIN seq : seq[i] = v})

\* C15: the roots of a request as execution_request produced it are exactly
\* the cartesian product of its subjects and products: every (subject,
\* product) once for every subject and every product, and no other root.
C15_RootsAreCartesianProduct ==
  \A r \in DOMAIN requests :
    requests[r].pos = 0 =>
      LET req == requests[r]
          rts == RemainingRoots(req)
      IN  /\ Range(rts) = Range(req.subjects) \X Range(req.products)
          /\ \A sp \in Range(rts) :
                Occurrences(rts, sp) =
                  Occurrences(req.subjects, sp[1]) * Occurrences(req.products, sp[2])

\* A request of several subjects and several products was produced.
C15_Witness ==
  \E r \in DOMAIN requests :
    /\ requests[r].pos = 0
    /\ Len(requests[r].subjects) >= 2
    /\ Len(requests[r].products) >= 2

(***************************************************************************)
(* isolated_process: the task function that executes a snapshotted         *)
(* process, and the completion the engine reports for its runnable.        *)
(***************************************************************************)
schedulerVars ==
  << tasks, goals, failing, phase, execution_request, requests, graph, roots,
     gens, lock, runCount, construction, pipelining, lastCall >>

\* No scheduler takes part: its state is that of Fresh and stays so.
SchedulerAbsent ==
  /\ tasks = <<>>
  /\ goals = {}
  /\ failing = {}
  /\ pipelining = FALSE
  /\ Fresh

\* The process requests input_conversion(*args) produces.
ProcessRequests ==
  [args : {<<>>, <<"-v">>},
   snapshots : {<<>>, <<"s1">>, <<"s1", "s2">>},
   directories_to_create : {<<>>, <<"out">>}]

\* What the binary does: its output and its return code (negative when it
\* was ended by a signal).
ExitCodes == {-9, 0, 1, 2}

Popens == [stdout : {"", "ok"}, stderr : {"", "boom"}, returncode : ExitCodes]

SnapshottedProcessResult(stdout, stderr, exit_code) ==
  [stdout |-> stdout, stderr |-> stderr, exit_code |-> exit_code]

\* The sandbox after the snapshots were extracted and the directories made.
Sandbox(process_request) ==
  {<<"snapshot", process_request.snapshots[i]>> :
     i \in DOMAIN process_request.snapshots}
  \cup {<<"dir", process_request.directories_to_create[i]>> :
          i \in DOMAIN process_request.directories_to_create}

\* The caller's output_conversion(process_result, sandbox_dir).
output_conversion(process_result, sandbox_dir) ==
  [stdout |-> process_result.stdout, files |-> sandbox_dir]

\* "if process_result.exit_code != 0" (faulty variant: only a positive code
\* counts as a failure).
PositiveExit(exit_code) == exit_code > 0

NonZeroExit(exit_code) == exit_code # 0

\* _snapshotted_process from the process request on: value holds the value
\* returned, conversions counts the calls of output_conversion.
snapshotted_process(process_request, popen) ==
  LET sandbox_dir    == Sandbox(process_request)
      process_result == SnapshottedProcessResult(popen.stdout, popen.stderr,
                                                 popen.returncode)
  IN  IF NonZeroExit(process_result.exit_code)
        THEN [raised |-> "Exception", value |-> <<>>, conversions |-> 0,
              sandbox |-> sandbox_dir]
        ELSE [raised |-> None,
              value |-> <<output_conversion(process_result, sandbox_dir)>>,
              conversions |-> 1, sandbox |-> sandbox_dir]

\* The state the engine reports for the runnable: Throw when the function
\* raised, Return of its value otherwise.
CompletionOf(outcome) == IF outcome.raised # None THEN "Throw" ELSE "Return"

\* One execution of a snapshotted process as a runnable of the engine.
SnapshottedProcess ==
  /\ Len(process) < MaxProcessRuns
  /\ \E process_request \in ProcessRequests : \E popen \in Popens :
       \E outcome \in {snapshotted_process(process_request, popen)} :
         process' = Append(process, [request |-> process_request,
                                     popen |-> popen,
                                     outcome |-> outcome,
                                     state |-> CompletionOf(outcome)])
  /\ UNCHANGED << schedulerVars, project_tree, filespec, resolved, goalVars >>

ProcessInit == SchedulerAbsent /\ Idle

ProcessSpec == ProcessInit /\ [][SnapshottedProcess]_vars

\* C16: an execution whose binary exits with a non-zero code returns no
\* value: it raises, its runnable completes as Throw, and output_conversion
\* is applied only when the exit code is 0.
C16_NonZeroExitThrows ==
  \A i \in DOMAIN process :
    LET e == process[i]
    IN  /\ e.popen.returncode # 0 =>
              /\ e.outcome.raised = "Exception"
              /\ e.outcome.value = <<>>
              /\ e.state = "Throw"
        /\ e.outcome.conversions > 0 => e.popen.returncode = 0
        /\ e.popen.returncode = 0 =>
              /\ e.state = "Return"
              /\ e.outcome.conversions = 1

\* A binary ended by a signal, with a negative return code, was executed
\* and its runnable completed as Throw.
C16_Witness ==
  \E i \in DOMAIN process :
    /\ process[i].popen.returncode < 0
    /\ process[i].state = "Throw"
    /\ process[i].outcome.conversions = 0

(***************************************************************************)
(* fs: the path-glob resolver.  A name is a tuple of characters, a path a  *)
(* tuple of names relative to the build root, a filespec the components of *)
(* a normalised pattern.  The rules of create_fs_tasks are followed as the *)
(* engine evaluates them: Paths for a glob, Dirs for Paths.                *)
(***************************************************************************)
Stat(kind, path, target) == [kind |-> kind, path |-> path, target |-> target]

Dir(path) == Stat("Dir", path, <<>>)

Path(path, stat) == [path |-> path, stat |-> stat]

basename(path) == path[Len(path)]

dirname(path) == SubSeq(path, 1, Len(path) - 1)

\* fnmatch.fnmatch(name, pat) for patterns of characters, `*` and `?`.
RECURSIVE fnmatch(_, _)
fnmatch(name, pat) ==
  IF pat = <<>> THEN name = <<>>
  ELSE IF pat[1] = "*"
    THEN fnmatch(name, Tail(pat)) \/ (name # <<>> /\ fnmatch(Tail(name), pat))
  ELSE /\ name # <<>>
       /\ (pat[1] = "?" \/ pat[1] = name[1])
       /\ fnmatch(Tail(name), Tail(pat))

\* PathGlob._DOUBLE and "_DOUBLE in part", "_SINGLE in part".
DOUBLE == <<"*", "*">>

HasDouble(part) ==
  \E i \in 1..(Len(part) - 1) : part[i] = "*" /\ part[i + 1] = "*"

HasSingle(part) == \E i \in DOMAIN part : part[i] = "*"

PathGlob(kind, canonical_stat, symbolic_path, wildcard, remainders) ==
  [kind |-> kind, canonical_stat |-> canonical_stat,
   symbolic_path |-> symbolic_path, wildcard |-> wildcard,
   remainders |-> remainders]

\* PathGlob.create_from_spec; a PathLiteral holds its literal as wildcard and
\* its remainder as the one remainder.  join() of no component is a TypeError.
create_from_spec(canonical_stat, symbolic_path, parts) ==
  IF canonical_stat.kind # "Dir"
    THEN PathGlob("ValueError", canonical_stat, symbolic_path, <<>>, <<>>)
  ELSE IF HasDouble(parts[1])
    THEN IF parts[1] # DOUBLE
           THEN PathGlob("ValueError", canonical_stat, symbolic_path, <<>>, <<>>)
         ELSE IF Len(parts) = 1
           THEN PathGlob("TypeError", canonical_stat, symbolic_path, <<>>, <<>>)
         ELSE PathGlob("PathDirWildcard", canonical_stat, symbolic_path,
                       parts[1], <<Tail(parts), parts>>)
  ELSE IF Len(parts) = 1
    THEN PathGlob("PathWildcard", canonical_stat, symbolic_path, parts[1], <<>>)
  ELSE IF ~HasSingle(parts[1])
    THEN PathGlob("PathLiteral", canonical_stat, symbolic_path, parts[1],
                  <<Tail(parts)>>)
  ELSE PathGlob("PathDirWildcard", canonical_stat, symbolic_path, parts[1],
                <<Tail(parts)>>)

\* scan_directory: the stats directly below a directory.
scan_directory(tree, directory) ==
  {s \in tree : s.path # <<>> /\ dirname(s.path) = directory.path}

apply_path_wildcard(stats, path_wildcard) ==
  {Path(path_wildcard.symbolic_path \o <<basename(st.path)>>, st) :
     st \in {st \in stats : fnmatch(basename(st.path), path_wildcard.wildcard)}}

filter_paths(stats, path_literal) ==
  {Path(path_literal.symbolic_path \o <<path_literal.wildcard>>, st) :
     st \in {st \in stats : basename(st.path) = path_literal.wildcard}}

filter_wildcard_paths(stats, path_dir_wildcard) ==
  {Path(path_dir_wildcard.symbolic_path \o <<basename(st.path)>>, st) :
     st \in {st \in stats :
               fnmatch(basename(st.path), path_dir_wildcard.wildcard)}}

\* resolve_dir_links: the Path of a link l that resolved to the directory d
\* (faulty variant: named by the canonical path of the directory).
LinkedPathCanonical(l, d) == Path(d.stat.path, d.stat)

LinkedPath(l, d) == Path(l.path, d.stat)

\* A failure of the resolution, carried in place of a Path.
ErrorPath(kind) == Path(<<>>, Stat(kind, <<>>, <<>>))

\* Paths(tree, glob, hops): the Paths a PathGlob resolves to.
\* Dirs(tree, paths, hops): resolve_dir_links over the Dirs of each link,
\* which re-enter the resolver at the link's target from the build root.
RECURSIVE Paths(_, _, _), Dirs(_, _, _)
Paths(tree, glob, hops) ==
  IF glob.kind \in {"ValueError", "TypeError"} THEN {ErrorPath(glob.kind)}
  ELSE
    LET stats == scan_directory(tree, glob.canonical_stat)
    IN  IF glob.kind = "PathWildcard" THEN apply_path_wildcard(stats, glob)
        ELSE
          LET filtered == IF glob.kind = "PathLiteral"
                            THEN filter_paths(stats, glob)
                            ELSE filter_wildcard_paths(stats, glob)
          IN  UNION {Paths(tree,
                           create_from_spec(d.stat, d.path, glob.remainders[i]),
                           hops) :
                       d \in Dirs(tree, filtered, hops),
                       i \in DOMAIN glob.remainders}

\* resolve_dir_links (faulty variant: a link is kept, under its own stat,
\* whatever it resolved to).
DirsKeepingLinks(tree, paths, hops) ==
  {p \in paths : p.stat.kind \notin {"File", "Link"}}
  \cup UNION {{LinkedPath(l, d) :
                 d \in IF hops = 0 \/ l.stat.target = <<>> THEN {l}
                       ELSE Dirs(tree,
                                 Paths(tree,
                                       create_from_spec(Dir(<<>>), <<>>,
                                                        l.stat.target),
                                       hops - 1),
                                 hops - 1) \cup {l}} :
                l \in {p \in paths : p.stat.kind = "Link"}}

Dirs(tree, paths, hops) ==
  {p \in paths : p.stat.kind \notin {"File", "Link"}}
  \cup UNION {{LinkedPath(l, d) :
                 d \in IF hops = 0 \/ l.stat.target = <<>> THEN {}
                       ELSE Dirs(tree,
                                 Paths(tree,
                                       create_from_spec(Dir(<<>>), <<>>,
                                                        l.stat.target),
                                       hops - 1),
                                 hops - 1)} :
                l \in {p \in paths : p.stat.kind = "Link"}}

\* Paths.files
Files(paths) == {p \in paths : p.stat.kind = "File"}

\* The project trees: the directories above a choice of files, and links.
Nm(c) == <<c>>

Ext(c, e) == <<c, ".", e>>

TreeFiles ==
  { <<Ext("r", "j")>>,
    <<Nm("a"), Ext("b", "j")>>,
    <<Nm("a"), Nm("c"), Ext("d", "j")>>,
    <<Nm("a"), Nm("c"), Ext("e", "t")>>,
    <<Nm("z"), Nm("w"), Nm("y"), Ext("f", "j")>> }

TreeLinks ==
  { Stat("Link", <<Nm("y")>>, <<Nm("z"), Nm("w"), Nm("y")>>),
    Stat("Link", <<Nm("q")>>, <<Nm("g")>>),
    Stat("Link", <<Nm("a"), Nm("l")>>, <<Nm("a"), Ext("b", "j")>>) }

TreeOf(files, links) ==
  {Stat("File", f, <<>>) : f \in files}
  \cup UNION {{Dir(SubSeq(f, 1, n)) : n \in 1..(Len(f) - 1)} : f \in files}
  \cup {l \in links : l.path = <<basename(l.path)>>
                       \/ \E f \in files : Len(f) > 1 /\ f[1] = l.path[1]}

Trees == {TreeOf(files, links) : files \in SUBSET TreeFiles, links \in SUBSET TreeLinks}

Filespecs ==
  { <<DOUBLE, Ext("*", "j")>>,
    <<Ext("*", "j")>>,
    <<Nm("a"), Ext("*", "j")>>,
    <<Nm("a"), Nm("c"), Ext("?", "j")>>,
    <<Nm("*"), Ext("*", "j")>>,
    <<Nm("?"), Ext("b", "j")>>,
    <<Nm("a"), DOUBLE, Ext("*", "j")>>,
    <<Nm("y"), Ext("*", "j")>>,
    <<Nm("q"), Ext("*", "j")>>,
    <<Nm("a"), Nm("*")>> }

FsInit ==
  /\ SchedulerAbsent
  /\ project_tree \in Trees
  /\ filespec \in Filespecs
  /\ resolved = <<>>
  /\ process = <<>>
  /\ NoGoals

\* The Paths of PathGlobs.create_from_specs('', [filespec]).
Resolve ==
  /\ resolved = <<>>
  /\ \E paths \in {Paths(project_tree,
                         create_from_spec(Dir(<<>>), <<>>, filespec),
                         MaxLinkHops)} :
       resolved' = <<paths>>
  /\ UNCHANGED << schedulerVars, process, project_tree, filespec, goalVars >>

FsSpec == FsInit /\ [][Resolve]_vars

(***************************************************************************)
(* PathGlob.create_from_spec on its own, over every filespec of up to      *)
(* MaxParts components.                                                    *)
(***************************************************************************)
GlobComponents ==
  {Nm("a"), Nm("*"), Nm("?"), DOUBLE, <<"a", "*", "*">>, Ext("*", "j")}

GlobSpecs == UNION {[1..n -> GlobComponents] : n \in 1..MaxParts}

GlobInit ==
  /\ SchedulerAbsent
  /\ project_tree = {}
  /\ filespec \in GlobSpecs
  /\ resolved = <<>>
  /\ process = <<>>
  /\ NoGoals

\* PathGlob.create_from_spec(Dir(''), '', filespec)
CreateFromSpec ==
  /\ resolved = <<>>
  /\ resolved' = <<create_from_spec(Dir(<<>>), <<>>, filespec)>>
  /\ UNCHANGED << schedulerVars, process, project_tree, filespec, goalVars >>

GlobSpec == GlobInit /\ [][CreateFromSpec]_vars

\* Conventional glob semantics over path components: `**` stands for zero
\* or more directory levels, `*` and `?` match within one component.
RECURSIVE GlobMatch(_, _)
GlobMatch(parts, path) ==
  IF parts = <<>> THEN path = <<>>
  ELSE IF parts[1] = DOUBLE
    THEN \/ GlobMatch(Tail(parts), path)
         \/ path # <<>> /\ GlobMatch(parts, Tail(path))
  ELSE /\ path # <<>>
       /\ fnmatch(path[1], parts[1])
       /\ GlobMatch(Tail(parts), Tail(path))

\* C17: over a tree without links, the files resolved for a pattern are
\* exactly the files of the tree that match it under conventional glob
\* semantics for `*`, `?` and `**`.
C17_GlobRoundTrip ==
  (resolved # <<>> /\ \A st \in project_tree : st.kind # "Link") =>
    {p.path : p \in Files(resolved[1])}
      = {st.path : st \in {st \in project_tree :
                             st.kind = "File" /\ GlobMatch(filespec, st.path)}}

\* C18: every Path resolved is named along the pattern, by the symbolic path
\* of the glob that matched it joined with the matched basename, also where
\* a link was followed: never by the canonical location of the link's target.
C18_SymbolicNamesPreserved ==
  resolved # <<>> =>
    \A p \in resolved[1] :
      /\ p.stat.kind \in {"File", "Dir", "Link"}
      /\ GlobMatch(filespec, p.path)
      /\ basename(p.path) = basename(p.stat.path)

\* With the link y -> z/w/y and the file z/w/y/f.j, y/*.j resolved to y/f.j.
C18_Witness ==
  /\ Stat("Link", <<Nm("y")>>, <<Nm("z"), Nm("w"), Nm("y")>>) \in project_tree
  /\ filespec = <<Nm("y"), Ext("*", "j")>>
  /\ resolved =
       << {Path(<<Nm("y"), Ext("f", "j")>>,
                Stat("File", <<Nm("z"), Nm("w"), Nm("y"), Ext("f", "j")>>, <<>>))} >>

(***************************************************************************)
(* goal: the Goal factory and the _Goal objects it hands out.  An object   *)
(* is identified by its position in goal_objects.                          *)
(***************************************************************************)
GoalNames == {"compile", "test", "clean"}

\* _Goal.__init__
NewGoal(name) ==
  [name |-> name, description |-> "", serialize |-> FALSE,
   task_type_by_name |-> <<>>, ordered_task_names |-> <<>>]

\* "name in cls._goal_by_name" (faulty variant: no name is ever found).
RegisteredNever(name, by) == FALSE

Registered(name, by) == name \in DOMAIN by

\* Goal.by_name(name): the dict, the objects and the object returned.
by_name(by, objects, name) ==
  IF Registered(name, by)
    THEN [by_name |-> by, objects |-> objects, goal |-> by[name]]
    ELSE [by_name |-> [n \in DOMAIN by \cup {name} |->
                         IF n = name THEN Len(objects) + 1 ELSE by[n]],
          objects |-> Append(objects, NewGoal(name)),
          goal |-> Len(objects) + 1]

\* Goal.by_name(name)
ByName ==
  /\ \E name \in GoalNames :
       /\ Registered(name, goal_by_name) \/ Len(goal_objects) < MaxGoalObjects
       /\ \E r \in {by_name(goal_by_name, goal_objects, name)} :
            /\ goal_by_name' = r.by_name
            /\ goal_objects' = r.objects
            /\ goal_calls' = goal_calls
                 \cup {[op |-> "by_name", name |-> name, goal |-> r.goal]}
  /\ UNCHANGED << schedulerVars, process, project_tree, filespec, resolved,
                  goal_last, stable_task_types >>

\* Goal.register(name, description)
Register ==
  /\ \E name \in GoalNames :
       /\ Registered(name, goal_by_name) \/ Len(goal_objects) < MaxGoalObjects
       /\ \E r \in {by_name(goal_by_name, goal_objects, name)} :
            /\ goal_by_name' = r.by_name
            /\ goal_objects' = [r.objects EXCEPT ![r.goal].description = "described"]
            /\ goal_calls' = goal_calls
                 \cup {[op |-> "register", name |-> name, goal |-> r.goal]}
  /\ UNCHANGED << schedulerVars, process, project_tree, filespec, resolved,
                  goal_last, stable_task_types >>

\* Goal.clear(): the dict is emptied; the objects handed out live on.
Clear ==
  /\ goal_by_name' = <<>>
  /\ goal_calls' = {}
  /\ UNCHANGED << schedulerVars, process, project_tree, filespec, resolved,
                  goal_objects, goal_last, stable_task_types >>

GoalInit ==
  /\ SchedulerAbsent
  /\ Idle

GoalNext ==
  \/ ByName
  \/ Register
  \/ Clear

GoalSpec == GoalInit /\ [][GoalNext]_vars

\* C19: among the calls of by_name and register since the last clear, calls
\* with the same name returned the same object and calls with different
\* names returned different objects.
C19_OneGoalPerName ==
  \A c, d \in goal_calls : (c.name = d.name) <=> (c.goal = d.goal)

\* by_name and register returned the same object for one name and another
\* object for another name, for a name that had an object before a clear.
C19_Witness ==
  \E c, d, e \in goal_calls :
    /\ c.op = "by_name" /\ d.op = "register"
    /\ c.name = d.name /\ c.goal = d.goal
    /\ e.name # c.name /\ e.goal # c.goal
    /\ \E g \in DOMAIN goal_objects :
         goal_objects[g].name = c.name /\ g # c.goal

(***************************************************************************)
(* goal: _Goal.install and _Goal.uninstall_task.  A task type is the entry *)
(* of the memo of _create_stable_task_type for (superclass, options        *)
(* scope); its options_scope attribute is a scope, or <<>> for None.  A    *)
(* scope is <<goal>> or <<goal, task>>.                                    *)
(***************************************************************************)
\* The task registrars installed: name, task type, serialize.
TaskRegistrars ==
  { [name |-> "a", task_type |-> "A", serialize |-> FALSE],
    [name |-> "b", task_type |-> "B", serialize |-> TRUE],
    [name |-> "compile", task_type |-> "C", serialize |-> FALSE] }

\* The placement arguments of install: each alone, and some together.
Placements ==
  LET names == {r.name : r \in TaskRegistrars}
      place(f, r, b, a) == [first |-> f, replace |-> r, before |-> b, after |-> a]
  IN  {place(FALSE, FALSE, None, None), place(TRUE, FALSE, None, None),
       place(FALSE, TRUE, None, None), place(TRUE, TRUE, None, None),
       place(FALSE, FALSE, "a", "b"), place(FALSE, TRUE, None, "a")}
      \cup {place(FALSE, FALSE, n, None) : n \in names}
      \cup {place(FALSE, FALSE, None, n) : n \in names}

\* Goal.scope(goal_name, task_name)
scope(goal_name, task_name) ==
  IF goal_name = task_name THEN <<goal_name>> ELSE <<goal_name, task_name>>

\* The execution list with the task placed: "if first ... elif before in otn
\* ... elif after in otn ... else append" (faulty variant: always appended).
PlacedAtEnd(otn, task_name, place) == Append(otn, task_name)

Placed(otn, task_name, place) ==
  LET index(x) == CHOOSE i \in DOMAIN otn :
                    otn[i] = x /\ \A j \in 1..(i - 1) : otn[j] # x
      insert(i) == SubSeq(otn, 1, i - 1) \o <<task_name>> \o SubSeq(otn, i, Len(otn))
  IN  IF place.first THEN insert(1)
      ELSE IF place.before \in Range(otn) THEN insert(index(place.before))
      ELSE IF place.after \in Range(otn) THEN insert(index(place.after) + 1)
      ELSE Append(otn, task_name)

\* "[bool(place) for place in [first, replace, before, after]]": the
\* placement arguments that are given (faulty variant: replace is not
\* counted).
GivenButReplace(place) ==
  {p \in {"first", "before", "after"} :
     \/ p = "first" /\ place.first
     \/ p = "before" /\ place.before # None
     \/ p = "after" /\ place.after # None}

Given(place) ==
  {p \in {"first", "replace", "before", "after"} :
     \/ p = "first" /\ place.first
     \/ p = "replace" /\ place.replace
     \/ p = "before" /\ place.before # None
     \/ p = "after" /\ place.after # None}

\* _Goal.install(task_registrar, first, replace, before, after) on a goal,
\* with the memo of task types.
install(goal, types, task_registrar, place) ==
  LET given == Cardinality(Given(place))
      cleared == IF place.replace
                   THEN [goal EXCEPT !.ordered_task_names = <<>>,
                                     !.task_type_by_name = <<>>]
                   ELSE goal
      types1 == IF place.replace
                  THEN [k \in DOMAIN types |->
                          IF k \in Range(goal.task_type_by_name)
                            THEN <<>> ELSE types[k]]
                  ELSE types
      task_name == task_registrar.name
      options_scope == scope(goal.name, task_name)
      key == <<task_registrar.task_type, options_scope>>
  IN  IF given > 1
        THEN [status |-> "GoalError", goal |-> goal, types |-> types]
      ELSE IF task_name \in DOMAIN cleared.task_type_by_name
        THEN [status |-> "GoalError", goal |-> cleared, types |-> types1]
      ELSE [status |-> "ok",
            goal |-> [cleared EXCEPT
                        !.ordered_task_names = Placed(@, task_name, place),
                        !.task_type_by_name = @ @@ (task_name :> key),
                        !.serialize = @ \/ task_registrar.serialize],
            types |-> IF key \in DOMAIN types1 THEN types1
                      ELSE types1 @@ (key :> options_scope)]

\* _Goal.uninstall_task(name) (faulty variant: the serialization requirement
\* is dropped with the task).
uninstall_task_relaxing(goal, types, name) ==
  IF name \in DOMAIN goal.task_type_by_name
    THEN [status |-> "ok",
          goal |-> [goal EXCEPT
                      !.task_type_by_name =
                         [n \in DOMAIN @ \ {name} |-> @[n]],
                      !.ordered_task_names = SelectSeq(@, LAMBDA x : x # name),
                      !.serialize = FALSE],
          types |-> [types EXCEPT ![goal.task_type_by_name[name]] = <<>>]]
    ELSE [status |-> "GoalError", goal |-> goal, types |-> types]

\* _Goal.uninstall_task(name) (faulty variant: the name stays in the
\* execution list).
uninstall_task_keeping_name(goal, types, name) ==
  IF name \in DOMAIN goal.task_type_by_name
    THEN [status |-> "ok",
          goal |-> [goal EXCEPT
                      !.task_type_by_name =
                         [n \in DOMAIN @ \ {name} |-> @[n]]],
          types |-> [types EXCEPT ![goal.task_type_by_name[name]] = <<>>]]
    ELSE [status |-> "GoalError", goal |-> goal, types |-> types]

\* _Goal.uninstall_task(name)
uninstall_task(goal, types, name) ==
  IF name \in DOMAIN goal.task_type_by_name
    THEN [status |-> "ok",
          goal |-> [goal EXCEPT
                      !.task_type_by_name =
                         [n \in DOMAIN @ \ {name} |-> @[n]],
                      !.ordered_task_names = SelectSeq(@, LAMBDA x : x # name)],
          types |-> [types EXCEPT ![goal.task_type_by_name[name]] = <<>>]]
    ELSE [status |-> "GoalError", goal |-> goal, types |-> types]

\* _Goal.active
active(goal) == Cardinality(DOMAIN goal.task_type_by_name) > 0

Install ==
  /\ \E g \in DOMAIN goal_objects : \E registrar \in TaskRegistrars :
       \E place \in Placements :
         \E res \in {install(goal_objects[g], stable_task_types, registrar, place)} :
           /\ goal_objects' = [goal_objects EXCEPT ![g] = res.goal]
           /\ stable_task_types' = res.types
           /\ goal_last' = [op |-> "install", goal |-> g, task |-> registrar.name,
                            status |-> res.status, place |-> place,
                            otn |-> goal_objects[g].ordered_task_names]
  /\ UNCHANGED << schedulerVars, process, project_tree, filespec, resolved,
                  goal_by_name, goal_calls >>

UninstallTask ==
  /\ \E g \in DOMAIN goal_objects : \E registrar \in TaskRegistrars :
       \E res \in {uninstall_task(goal_objects[g], stable_task_types,
                                  registrar.name)} :
         /\ goal_objects' = [goal_objects EXCEPT ![g] = res.goal]
         /\ stable_task_types' = res.types
         /\ goal_last' = [goal_last EXCEPT
                            !.op = "uninstall_task", !.goal = g,
                            !.task = registrar.name, !.status = res.status,
                            !.otn = goal_objects[g].ordered_task_names]
  /\ UNCHANGED << schedulerVars, process, project_tree, filespec, resolved,
                  goal_by_name, goal_calls >>

\* The goal `compile` was obtained from Goal.by_name; nothing is installed.
InstallInit ==
  /\ SchedulerAbsent
  /\ process = <<>>
  /\ project_tree = {}
  /\ filespec = <<>>
  /\ resolved = <<>>
  /\ \E r \in {by_name(<<>>, <<>>, "compile")} :
       /\ goal_by_name = r.by_name
       /\ goal_objects = r.objects
       /\ goal_calls = {[op |-> "by_name", name |-> "compile", goal |-> r.goal]}
  /\ goal_last = [op |-> "none", goal |-> 0, task |-> None, status |-> "ok",
                  place |-> [first |-> FALSE, replace |-> FALSE,
                             before |-> None, after |-> None],
                  otn |-> <<>>]
  /\ stable_task_types = <<>>

InstallNext ==
  \/ Install
  \/ UninstallTask

InstallSpec == InstallInit /\ [][InstallNext]_vars

\* The last call was an install that succeeded.
Installed == goal_last.op = "install" /\ goal_last.status = "ok"

\* The execution list of the goal of the last call.
ListNow == goal_objects[goal_last.goal].ordered_task_names

\* t stands immediately before b in the list.
ImmediatelyBefore(otn, t, b) ==
  \E i \in 1..(Len(otn) - 1) : otn[i] = t /\ otn[i + 1] = b

\* C20 (as stated): a successful install places the task at position 0 with
\* first, immediately before the named task with before, immediately after
\* the named task with after, as the only task with replace, otherwise at
\* the end; the order of the names already installed is unchanged.
C20_InstallPlacesAsRequested ==
  Installed =>
    LET p == goal_last.place
        t == goal_last.task
    IN  /\ p.first => ListNow[1] = t
        /\ p.before # None => ImmediatelyBefore(ListNow, t, p.before)
        /\ p.after # None => ImmediatelyBefore(ListNow, p.after, t)
        /\ p.replace => ListNow = <<t>>
        /\ (~p.first /\ ~p.replace /\ p.before = None /\ p.after = None)
             => ListNow[Len(ListNow)] = t
        /\ ~p.replace => SelectSeq(ListNow, LAMBDA x : x # t) = goal_last.otn

\* C20 (amended): as above, where before and after place the task next to
\* the named task when that task is installed in the goal, and at the end
\* when it is not.
C20_InstallPlacesNextToInstalled ==
  Installed =>
    LET p == goal_last.place
        t == goal_last.task
        named == IF p.before # None THEN p.before ELSE p.after
    IN  /\ p.first => ListNow[1] = t
        /\ (p.before # None /\ p.before \in Range(goal_last.otn))
             => ImmediatelyBefore(ListNow, t, p.before)
        /\ (p.after # None /\ p.after \in Range(goal_last.otn))
             => ImmediatelyBefore(ListNow, p.after, t)
        /\ p.replace => ListNow = <<t>>
        /\ (~p.first /\ ~p.replace /\ named \notin Range(goal_last.otn))
             => ListNow[Len(ListNow)] = t
        /\ ~p.replace => SelectSeq(ListNow, LAMBDA x : x # t) = goal_last.otn

\* A task was installed after the first of two installed tasks, between them.
C20_Witness ==
  /\ Installed
  /\ Len(goal_last.otn) = 2
  /\ goal_last.place.after = goal_last.otn[1]
  /\ ListNow = <<goal_last.otn[1], goal_last.task, goal_last.otn[2]>>

\* More than one of first, replace, before, after is given.
Several(place) ==
  \/ place.first /\ (place.replace \/ place.before # None \/ place.after # None)
  \/ place.replace /\ (place.before # None \/ place.after # None)
  \/ place.before # None /\ place.after # None

\* The step is a call of install on goal g of the kind named: with more
\* than one placement argument, or with a task name installed in the goal.
InstallStepWith(g, several, installed) ==
  /\ goal_last'.op = "install"
  /\ goal_last'.goal = g
  /\ goal_last'.otn = goal_objects[g].ordered_task_names
  /\ several = Several(goal_last'.place)
  /\ installed = (goal_last'.task \in DOMAIN goal_objects[g].task_type_by_name)

\* The call of the step raised GoalError and left the goals and the task
\* types as they were.
RaisedUnchanged ==
  /\ goal_last'.status = "GoalError"
  /\ goal_objects' = goal_objects
  /\ stable_task_types' = stable_task_types

\* C21 (as stated): install raises GoalError when more than one of first,
\* replace, before, after is given, and when the task name is already
\* installed in the goal; the goal's ordered task names, task types and
\* serialize flag are then as before the call.
C21_InstallRaisesUnchanged ==
  [][\A g \in DOMAIN goal_objects : \A several, installed \in BOOLEAN :
       (InstallStepWith(g, several, installed) /\ (several \/ installed))
         => RaisedUnchanged]_vars

\* C21 (amended): as above, where a task name already installed raises only
\* when replace is not given; install with replace alone succeeds for any
\* task name.
C21_InstallRaisesUnlessReplaced ==
  [][\A g \in DOMAIN goal_objects : \A several, installed \in BOOLEAN :
       InstallStepWith(g, several, installed) =>
         /\ (several \/ (installed /\ ~goal_last'.place.replace))
              => RaisedUnchanged
         /\ (~several /\ goal_last'.place.replace) => goal_last'.status = "ok"]_vars

\* An install of a task name installed in a goal of two tasks, one of them
\* requiring serialization, raised GoalError.
C21_Witness ==
  /\ goal_last.op = "install"
  /\ goal_last.status = "GoalError"
  /\ ~Several(goal_last.place)
  /\ goal_last.task \in Range(goal_last.otn)
  /\ Len(goal_objects[goal_last.goal].ordered_task_names) = 2
  /\ goal_objects[goal_last.goal].serialize

\* No node of the graph reaches itself along dependency edges.
Acyclic ==
  \A k \in DOMAIN graph :
    k \notin ReachableFrom(graph, Range(graph[k].deps), Range(graph[k].deps))

\* A node settled for a cycle is Noop, and a node of the graph that a rule
\* for its product demands is not among its dependencies: the edge was not
\* added.
CycleSettled(k) ==
  /\ graph[k].state = "Noop"
  /\ \E w \in DOMAIN graph :
       /\ w \notin Range(graph[k].deps)
       /\ \E i \in DOMAIN tasks : \E j \in DOMAIN tasks[i].selectors :
            /\ tasks[i].output = k.selector.product
            /\ w = Key(k.subject, tasks[i].selectors[j])

\* C22: the dependency graph is acyclic in every reachable state, a node
\* whose demand would close a cycle is settled as Noop("cycle") without the
\* edge, and a schedule over cyclic rules still terminates.
C22_AcyclicAndTerminates ==
  /\ [](Acyclic /\ \A k \in DOMAIN graph :
                     graph[k].reason = "cycle" => CycleSettled(k))
  /\ \A i \in 1..MaxSchedules :
       (i \in DOMAIN gens /\ tasks = CycleRules /\ gens[i].pc # "raised")
         ~> (i \in DOMAIN gens /\ gens[i].pc = "done")

\* The schedule of a request over the cyclic rules A <- B, B <- A is done,
\* with the node of B settled as Noop("cycle").
C22_Witness ==
  /\ tasks = CycleRules
  /\ \E i \in DOMAIN gens : gens[i].pc = "done"
  /\ Key("x", Select("B")) \in DOMAIN graph
  /\ graph[Key("x", Select("B"))].state = "Noop"
  /\ graph[Key("x", Select("B"))].reason = "cycle"

\* C23: a node leaves Waiting once and for all, and a node in a terminal
\* state (Return, Throw or Noop) keeps its state and its value in every
\* later state in which it is in the graph.
C23_TerminalStatesFinal ==
  [][\A k \in DOMAIN graph \cap DOMAIN graph' :
       /\ graph[k].state # "Waiting" => graph'[k].state # "Waiting"
       /\ Terminal(graph[k]) =>
            /\ graph'[k].state = graph[k].state
            /\ graph'[k].value = graph[k].value
       /\ graph[k].state = "Runnable" =>
            graph'[k].state \in {"Runnable", "Return", "Throw"}]_vars

\* A second schedule has run to its end over a graph holding a node that
\* was run once, returned, and a node that was settled Noop.
C23_Witness ==
  /\ Len(gens) = 2
  /\ gens[2].pc = "done"
  /\ \E k, n \in DOMAIN graph :
       /\ graph[k].state = "Return" /\ RunsOf(runCount, k) = 1
       /\ graph[n].state = "Noop"

C25_ReturnedDepsReturned ==
  \A k \in DOMAIN graph :
    graph[k].state = "Return" =>
      \A d \in Range(graph[k].deps) : graph[d].state = "Return"

\* P of x returned through its second candidate p_of_addr after the first,
\* p_of_a, failed on the Noop node of A.
C25_Witness ==
  /\ tasks = CycleRules
  /\ Key("x", Select("P")) \in DOMAIN graph
  /\ Key("x", Select("A")) \in DOMAIN graph
  /\ graph[Key("x", Select("P"))].state = "Return"
  /\ graph[Key("x", Select("P"))].cand = 2
  /\ graph[Key("x", Select("P"))].deps # <<>>
  /\ graph[Key("x", Select("A"))].state = "Noop"

\* C26: Noop propagates only through required dependencies.  A rule-produced
\* node is Noop only by a cycle or when every candidate rule has a Noop
\* dependency, and it is Noop when every candidate has one and none threw;
\* a node with a candidate whose dependencies are all Return is not Noop: it
\* is run, and it returns unless its function raised.
DepState(k, sel) ==
  IF SubjectType(k.subject) = sel.product THEN "Return"
  ELSE IF Key(k.subject, sel) \in DOMAIN graph
    THEN graph[Key(k.subject, sel)].state
  ELSE "Absent"

CandidateHas(k, r, st) ==
  \E j \in DOMAIN r.selectors : DepState(k, r.selectors[j]) = st

RuleProduced(k) ==
  /\ k.selector.tag = "Select"
  /\ SubjectType(k.subject) # k.selector.product
  /\ ~IsIntrinsic(k)

C26_NoopThroughRequiredOnly ==
  \A k \in DOMAIN graph :
    RuleProduced(k) =>
      LET cs == Candidates(tasks, k.selector.product)
          n  == graph[k]
      IN  /\ (n.state = "Noop" /\ n.reason # "cycle") =>
                \A c \in DOMAIN cs : CandidateHas(k, cs[c], "Noop")
          /\ ( /\ \A c \in DOMAIN cs : CandidateHas(k, cs[c], "Noop")
               /\ \A c \in DOMAIN cs : ~CandidateHas(k, cs[c], "Throw") )
                => n.state = "Noop"
          /\ (\E c \in DOMAIN cs :
                \A j \in DOMAIN cs[c].selectors :
                  DepState(k, cs[c].selectors[j]) = "Return") =>
                /\ n.state \in {"Runnable", "Return", "Throw"}
                /\ n.state = "Throw" => n.func \in failing

\* A of x is Noop through its required B, and P of x returned through its
\* second candidate while A, the dependency of its first, is Noop.
C26_Witness ==
  /\ tasks = CycleRules
  /\ Key("x", Select("P")) \in DOMAIN graph
  /\ graph[Key("x", Select("P"))].state = "Return"
  /\ graph[Key("x", Select("A"))].state = "Noop"
  /\ graph[Key("x", Select("A"))].reason # "cycle"
  /\ graph[Key("x", Select("B"))].state = "Noop"
  /\ \E i \in DOMAIN gens : gens[i].pc = "done"

\* C27: candidates are tried in a fixed order: the intrinsic of the
\* (subject type, product) before any user rule, then the user rules in
\* registration order.  The node runs the first rule whose dependencies are
\* all Return, every rule registered before it for the product having failed
\* on a Noop dependency, and a node not settled by a cycle is Noop("no rule")
\* exactly when every rule for its product has failed.
RuleFailed(k, r) == CandidateHas(k, r, "Noop")

RuleSatisfied(k, r) ==
  \A j \in DOMAIN r.selectors : DepState(k, r.selectors[j]) = "Return"

C27_CandidateOrder ==
  \A k \in DOMAIN graph :
    LET n    == graph[k]
        mine == {i \in DOMAIN tasks : tasks[i].output = k.selector.product}
    IN  /\ (IsIntrinsic(k) /\ SubjectType(k.subject) # k.selector.product) =>
             /\ n.state \in {"Runnable", "Return", "Throw"}
             /\ n.func = Intrinsics[<<SubjectType(k.subject),
                                      k.selector.product>>]
        /\ (RuleProduced(k) /\ n.reason # "cycle") =>
             /\ (n.state = "Noop" /\ n.reason = "no rule")
                  <=> \A i \in mine : RuleFailed(k, tasks[i])
             /\ n.state \in {"Runnable", "Return", "Throw"} =>
                  \E i \in mine :
                    /\ \A h \in mine : h < i => RuleFailed(k, tasks[h])
                    /\ \/ /\ RuleSatisfied(k, tasks[i])
                          /\ n.func = tasks[i].func
                       \/ /\ n.state = "Throw"
                          /\ CandidateHas(k, tasks[i], "Throw")

\* One request has met all the cases: Snapshot of pg is produced by the
\* intrinsic although a satisfied user rule is registered; W of x ran
\* w_first, the second of three rules, after w_of_q failed and with w_second
\* satisfied too; Snapshot of x, whose only rule failed, is Noop("no rule").
C27_Witness ==
  /\ tasks = SelectionRules
  /\ {Key("pg", Select("Snapshot")), Key("x", Select("W")),
      Key("x", Select("Snapshot"))} \subseteq DOMAIN graph
  /\ graph[Key("pg", Select("Snapshot"))].state = "Return"
  /\ graph[Key("pg", Select("Snapshot"))].func = "snapshot"
  /\ graph[Key("x", Select("W"))].state = "Return"
  /\ graph[Key("x", Select("W"))].func = "w_first"
  /\ graph[Key("x", Select("Q"))].state = "Noop"
  /\ graph[Key("x", Select("Snapshot"))].state = "Noop"
  /\ graph[Key("x", Select("Snapshot"))].reason = "no rule"

C29_OneSuspensionPerIteration ==
  \A i \in DOMAIN gens : gens[i].pc # "yielded2"

\* C30: no rule function runs under the scheduler lock: whenever a generator
\* is suspended with a batch in the caller's hands, the lock is not held.
C30_LockFreeWhileBatchOut ==
  \A i \in DOMAIN gens :
    (gens[i].pc = "yielded" /\ gens[i].handed # {}) => lock = 0

\* C31: resolve_dir_links keeps every direct directory and every link that
\* resolved to a directory, under the link's own path, and drops exactly the
\* links whose resolved Dirs are empty: a dangling link and a link to a file
\* contribute no match and no error.
C31_DeadLinksDropped ==
  /\ \A d \in {Dir(<<>>)} \cup {s \in project_tree : s.kind = "Dir"} :
       LET ps == {Path(s.path, s) : s \in scan_directory(project_tree, d)}
       IN  Dirs(project_tree, ps, MaxLinkHops)
             = {p \in ps : p.stat.kind = "Dir"}
               \cup {Path(l.path, Dir(l.stat.target)) :
                       l \in {p \in ps : /\ p.stat.kind = "Link"
                                         /\ Dir(p.stat.target) \in project_tree}}
  /\ resolved # <<>> =>
       \A p \in resolved[1] :
         /\ p.stat.kind \in {"File", "Dir", "Link"}
         /\ \A l \in project_tree :
              (l.kind = "Link" /\ Dir(l.target) \notin project_tree
                 /\ Len(p.path) > Len(l.path))
                => SubSeq(p.path, 1, Len(l.path)) # l.path

\* */*.j was resolved over a tree with the dangling link q, the link a/l to
\* a file and the link y to a directory: a file is matched below y, none
\* below q, and the result holds no error.
C31_Witness ==
  /\ resolved # <<>>
  /\ filespec = <<Nm("*"), Ext("*", "j")>>
  /\ TreeLinks \subseteq project_tree
  /\ Dir(<<Nm("z"), Nm("w"), Nm("y")>>) \in project_tree
  /\ \E p \in resolved[1] : p.path = <<Nm("y"), Ext("f", "j")>>
  /\ \A p \in resolved[1] : p.path[1] # Nm("q") /\ p.stat.kind = "File"

\* C32: create_from_spec classifies a filespec by its first component: `**`
\* gives a PathDirWildcard with the rest of the spec and the whole spec as
\* remainders, also for the spec `**` alone; a component containing `**`
\* without being it is a ValueError; one component gives a PathWildcard; a
\* first component without `*` a PathLiteral; any other a PathDirWildcard
\* with one remainder.
C32_CreateFromSpecClassifies ==
  resolved # <<>> =>
    LET g     == resolved[1]
        parts == filespec
    IN  IF parts[1] = DOUBLE
          THEN /\ g.kind = "PathDirWildcard"
               /\ g.remainders = <<Tail(parts), parts>>
        ELSE IF HasDouble(parts[1]) THEN g.kind = "ValueError"
        ELSE IF Len(parts) = 1
          THEN g.kind = "PathWildcard" /\ g.wildcard = parts[1]
        ELSE IF ~HasSingle(parts[1])
          THEN /\ g.kind = "PathLiteral"
               /\ g.wildcard = parts[1]
               /\ g.remainders = <<Tail(parts)>>
        ELSE /\ g.kind = "PathDirWildcard"
             /\ g.wildcard = parts[1]
             /\ g.remainders = <<Tail(parts)>>

\* C33: a goal's serialization requirement is never relaxed: a successful
\* install of a registrar that requires serialization sets the goal's
\* serialize flag, and a flag that is set stays set through every later
\* install, replace and uninstall_task.
C33_SerializeNeverRelaxed ==
  [][\A g \in DOMAIN goal_objects :
       /\ goal_objects[g].serialize => goal_objects'[g].serialize
       /\ ( /\ goal_last'.op = "install"
            /\ goal_last'.goal = g
            /\ goal_last'.status = "ok"
            /\ \E r \in TaskRegistrars :
                 r.name = goal_last'.task /\ r.serialize )
            => goal_objects'[g].serialize]_vars

\* The serializing task b was installed and then uninstalled: the goal has
\* no task left and still requires serialization.
C33_Witness ==
  /\ goal_last.op = "uninstall_task"
  /\ goal_last.task = "b"
  /\ goal_last.status = "ok"
  /\ goal_objects[goal_last.goal].task_type_by_name = <<>>
  /\ goal_objects[goal_last.goal].serialize

\* C34: every task type installed in a goal has options_scope equal to
\* Goal.scope(goal name, task name), also a task that was uninstalled or
\* replaced and then installed again under the same goal and name.
C34_InstalledTypeKnowsScope ==
  \A g \in DOMAIN goal_objects :
    \A n \in DOMAIN goal_objects[g].task_type_by_name :
      stable_task_types[goal_objects[g].task_type_by_name[n]]
        = scope(goal_objects[g].name, n)

\* C35: root_entries with a request that is not the one most recently
\* passed to schedule, or before any schedule, raises ValueError; with the
\* most recently scheduled request it succeeds, also after that request's
\* loop has finished.
C35_RootEntriesOfLastScheduled ==
  lastCall.op = "root_entries" =>
    LET last == IF gens = <<>> THEN 0 ELSE gens[Len(gens)].req
    IN  /\ lastCall.req # last => lastCall.status = "ValueError"
        /\ lastCall.req = last => lastCall.status = "ok"

\* C36: each time a request is passed to schedule the full set of its
\* (subject, product) roots is admitted: whenever a request of supported
\* subjects is the active one, the roots of the execution are its pairs, in
\* order, also when the request was scheduled before.
C36_RescheduleAdmitsSameRoots ==
  execution_request # 0 =>
    LET req   == requests[execution_request]
        pairs == RootPairs(req)
    IN  (\A n \in DOMAIN pairs :
           SubjectType(pairs[n][1]) \in DOMAIN root_selector_fns)
          => roots = [n \in DOMAIN pairs |->
                        Key(pairs[n][1],
                            RootSelector(root_selector_fns[SubjectType(pairs[n][1])],
                                         pairs[n][2]))]

\* C37: when a root of the request has a subject of an unsupported type,
\* schedule raises TypeError before any batch and leaves the scheduler as it
\* was: the active request stays active, its roots stay admitted, and no
\* root of the new request is admitted.
C37_TypeErrorLeavesSchedulerAsItWas ==
  [][( /\ Len(gens') = Len(gens) + 1
       /\ gens'[Len(gens')].pc = "raised"
       /\ \E s \in Range(requests[gens'[Len(gens')].req].subjects) :
            SubjectType(s) \notin DOMAIN root_selector_fns )
       => /\ gens'[Len(gens')].batches = 0
          /\ execution_request' = execution_request
          /\ roots' = roots
          /\ graph' = graph]_vars

\* C38: when a submission of completions holds an entry whose state is
\* neither Return nor Throw, the scheduler raises ValueError on the pass that
\* receives it and integrates none of the submission: no node changes state
\* and no new batch is computed.
C38_BadCompletionRejectedWhole ==
  [][\A i \in DOMAIN gens :
       ( /\ gens[i].pc = "yielded2"
         /\ \E c \in gens[i].completed : c.state \notin {"Return", "Throw"}
         /\ gens'[i].pc # "yielded2" )
         => /\ gens'[i].pc = "raised"
            /\ graph' = graph
            /\ runCount' = runCount
            /\ gens'[i].handed = gens[i].handed]_vars

\* A submission with a Return for one runnable and a bad entry for another
\* was rejected: the generator has raised and the node of the returned
\* runnable is still Runnable.
C38_Witness ==
  \E i \in DOMAIN gens :
    /\ gens[i].pc = "raised"
    /\ gens[i].handed = {}
    /\ Cardinality({k \in gens[i].outstanding :
                      graph[k].state = "Runnable"}) >= 2

\* C39: after any sequence of install and uninstall_task calls on a goal,
\* successful or failing, the ordered task names hold no duplicate and are
\* exactly the names with a registered task type, and the goal is active if
\* and only if there is such a name.
C39_TaskNamesConsistent ==
  \A g \in DOMAIN goal_objects :
    LET otn == goal_objects[g].ordered_task_names
    IN  /\ \A i, j \in DOMAIN otn : otn[i] = otn[j] => i = j
        /\ Range(otn) = DOMAIN goal_objects[g].task_type_by_name
        /\ active(goal_objects[g]) <=> otn # <<>>

\* Three tasks were installed and one of them uninstalled: two names are
\* left and the goal is active.
C39_Witness ==
  /\ goal_last.op = "uninstall_task"
  /\ goal_last.status = "ok"
  /\ Len(goal_last.otn) = 3
  /\ Len(goal_objects[goal_last.goal].ordered_task_names) = 2
  /\ active(goal_objects[goal_last.goal])

====
